---- MODULE Spec2Model ----
(***************************************************************************)
(* State-machine model of oec (IBM 3270 terminal controller).              *)
(*                                                                         *)
(* The controller thread (Controller.run / _run_loop and the methods it    *)
(* calls) is a sequential process whose position is pc.  The tasks that    *)
(* _start_session and _terminate_session submit to the ThreadPoolExecutor  *)
(* run in worker threads and are separate actions.  stop() is called from  *)
(* a signal handler and may happen between any two controller steps.  The  *)
(* model ends where run() returns or an exception propagates out of it.    *)
(*                                                                         *)
(* A dict of the program is a sequence of entries in insertion order       *)
(* (sessions), or a set of keys where the order is never observed          *)
(* (devices).  Session objects are tracked per device address: the code    *)
(* keeps one sessions entry per address.  Times are counted in ticks of    *)
(* 1/30 s; every perf_counter() reading is an input.                       *)
(*                                                                         *)
(* The poll delay, the BufferedDisplay, the jumbo write split, the         *)
(* Keyboard, the Terminal, the address counter of the Display, clear(),    *)
(* the futures of _update_sessions, the steps of the attached poll, the    *)
(* host connection of a TN3270 session, the keystroke dispatch, the while  *)
(* loop of _update_sessions, the device object of a session and the timed  *)
(* detached poll are modelled on their own, each with a variable and a     *)
(* specification of its own (SpecPollDelay, SpecDisplay, SpecJumbo,        *)
(* SpecKeyboard, SpecTerminal, SpecCounter, SpecClear, SpecReaping,        *)
(* SpecPolling, SpecHost, SpecDispatch, SpecServicing, SpecBinding,        *)
(* SpecDetached) in which the controller does not move.  SpecLive is the   *)
(* controller under fair execution of the run loop and the worker pool.    *)
(***************************************************************************)
EXTENDS Integers, Sequences, FiniteSets, TLC

\* ------------------------------------------------------------------ bounds
\* Number of 3299 multiplexer ports of PORT_MAP_3299 that are modelled.
NumPorts == 1

\* -------------------------------------------------------- program constants
\* Controller.poll_depth
poll_depth == 3
\* Controller.attached_poll_period (1/15 s) in ticks of 1/30 s
attached_poll_period == 2
\* Controller.detatched_poll_period (1/2 s) in ticks of 1/30 s
detatched_poll_period == 15

\* The device address None (direct attached device).
NoneAddr == -1
\* "not yet set" for last_attached_poll_time / last_detatched_poll_time.
NoTime == -1

\* coax.multiplexer.PORT_MAP_3299, first NumPorts ports.
PORT_MAP_3299 == SubSeq(<<0, 32, 16, 48, 8, 40, 24, 56>>, 1, NumPorts)

PortAddresses == {PORT_MAP_3299[i] : i \in DOMAIN PORT_MAP_3299}
Addresses == {NoneAddr} \cup PortAddresses

\* Elapsed times (ticks) that a perf_counter() difference is drawn from.
ElapsedSamples == {0, attached_poll_period, detatched_poll_period}

Max(a, b) == IF a >= b THEN a ELSE b

SeqToSet(s) == {s[i] : i \in DOMAIN s}

\* All orders in which the elements of a set can be iterated.
Orders(S) == {f \in [1..Cardinality(S) -> S] : \A i, j \in 1..Cardinality(S) : f[i] = f[j] => i = j}

VARIABLES
    pc,                          \* position of the controller thread
    running,                     \* Controller.running
    protocol_3299,               \* InterfaceFeature.PROTOCOL_3299 in interface.features
    devices,                     \* keys of Controller.devices
    detatched_device_poll_queue, \* Controller.detatched_device_poll_queue
    sessions,                    \* Controller.sessions, in dict order
    session_selector,            \* sessions registered with session_selector
    selector_open,               \* session_selector is not None
    session_executor,            \* "None" or "running"
    start_tasks,                 \* unfinished start_session tasks per address
    terminate_tasks,             \* unfinished terminate_session tasks per address
    last_attached_poll_time,
    last_detatched_poll_time,
    duration,                    \* poll_delay / duration of _update_sessions
    started_sessions,            \* local of _update_sessions
    updated_sessions,            \* local of _update_sessions
    is_first_iteration,          \* local of _update_sessions
    ready,                       \* sessions of the current select round not yet handled
    poll_round,                  \* loop counter of _poll_attached_devices
    shutdown_sessions,           \* the ACTIVE sessions run() iterates over
    shutdown_index,              \* how many of them have been terminated
    session_started,             \* start() of the session object at the address returned
    terminate_calls,             \* terminate() calls on the session object at the address
    escaped,                     \* what propagated out of run(), "none" if nothing
    polled,                      \* a POLL was issued in this iteration
    serviced,                    \* host I/O was serviced in this iteration
    found,                       \* detached poll of this iteration
    restart_wait,                \* the last host disconnect: address, iterations without restart
    delay,                       \* a call of _calculate_poll_delay: the times and the result
    display,                     \* a BufferedDisplay and the bytes its device holds
    jumbo,                       \* a call of _jumbo_write_split_data and its result
    keyboard,                    \* a Keyboard, its last get_key call and the result
    terminal,                    \* a Terminal: control register, alarm, clicker, last call
    counter,                     \* a Display's address counter and the one of its device
    reaping,                     \* the sessions dict before and after the futures are handled
    polling,                     \* one call of _poll_attached_devices, step by step
    host,                        \* a TN3270Session: its telnet connection and how often it was closed
    dispatch,                    \* a terminal, the sessions entry of its address and its last keystroke
    servicing,                   \* one call of _update_sessions: select rounds, handle_host, render
    binding,                     \* the device object and the session of one device address
    detached                     \* the detached polling over time: clock, queue and last call

controllerVars == <<pc, running, protocol_3299, devices, detatched_device_poll_queue, sessions,
          session_selector, selector_open, session_executor, start_tasks, terminate_tasks,
          last_attached_poll_time, last_detatched_poll_time, duration, started_sessions,
          updated_sessions, is_first_iteration, ready, poll_round, shutdown_sessions, shutdown_index,
          session_started, terminate_calls, escaped, polled, serviced, found, restart_wait>>

\* the state of the components that are modelled on their own
componentVars ==
    <<delay, display, jumbo, keyboard, terminal, counter, reaping, polling, host, dispatch,
      servicing, binding, detached>>

\* what the specification of one component leaves alone
exceptDelay ==
    <<controllerVars, display, jumbo, keyboard, terminal, counter, reaping, polling, host,
      dispatch, servicing, binding, detached>>
exceptDisplay ==
    <<controllerVars, delay, jumbo, keyboard, terminal, counter, reaping, polling, host,
      dispatch, servicing, binding, detached>>
exceptJumbo ==
    <<controllerVars, delay, display, keyboard, terminal, counter, reaping, polling, host,
      dispatch, servicing, binding, detached>>
exceptKeyboard ==
    <<controllerVars, delay, display, jumbo, terminal, counter, reaping, polling, host,
      dispatch, servicing, binding, detached>>
exceptTerminal ==
    <<controllerVars, delay, display, jumbo, keyboard, counter, reaping, polling, host,
      dispatch, servicing, binding, detached>>
exceptCounter ==
    <<controllerVars, delay, display, jumbo, keyboard, terminal, reaping, polling, host,
      dispatch, servicing, binding, detached>>
exceptClear ==
    <<controllerVars, delay, jumbo, keyboard, terminal, reaping, polling, host, dispatch,
      servicing, binding, detached>>
exceptReaping ==
    <<controllerVars, delay, display, jumbo, keyboard, terminal, counter, polling, host,
      dispatch, servicing, binding, detached>>
exceptPolling ==
    <<controllerVars, delay, display, jumbo, keyboard, terminal, counter, reaping, host,
      dispatch, servicing, binding, detached>>
exceptHost ==
    <<controllerVars, delay, display, jumbo, keyboard, terminal, counter, reaping, polling,
      dispatch, servicing, binding, detached>>
exceptDispatch ==
    <<controllerVars, delay, display, jumbo, keyboard, terminal, counter, reaping, polling,
      host, servicing, binding, detached>>
exceptServicing ==
    <<controllerVars, delay, display, jumbo, keyboard, terminal, counter, reaping, polling,
      host, dispatch, binding, detached>>
exceptBinding ==
    <<controllerVars, delay, display, jumbo, keyboard, terminal, counter, reaping, polling,
      host, dispatch, servicing, detached>>
exceptDetached ==
    <<controllerVars, delay, display, jumbo, keyboard, terminal, counter, reaping, polling,
      host, dispatch, servicing, binding>>

vars == <<controllerVars, componentVars>>

\* ------------------------------------------------------------ sessions dict
\* An entry of self.sessions: the key, the state and, for STARTING and TERMINATING,
\* the future (done: it has finished, ok: without an exception).  cause records why
\* a TERMINATING entry is terminating.
SessionEntry(a, state, done, ok, cause) ==
    [addr |-> a, state |-> state, done |-> done, ok |-> ok, cause |-> cause]

SessionKeys(s) == {s[i].addr : i \in DOMAIN s}

SessionIndex(s, a) == CHOOSE i \in DOMAIN s : s[i].addr = a

\* state of the entry of address a, "NONE" if a is not a key
SessionStateOf(s, a) == IF a \in SessionKeys(s) THEN s[SessionIndex(s, a)].state ELSE "NONE"

\* self.sessions[a] = entry: a new key is added last, a known key keeps its place
SetSession(s, entry) ==
    IF entry.addr \in SessionKeys(s)
    THEN [i \in DOMAIN s |-> IF s[i].addr = entry.addr THEN entry ELSE s[i]]
    ELSE Append(s, entry)

\* del self.sessions[a] for every a in A
DelSessions(s, A) == SelectSeq(s, LAMBDA e : e.addr \notin A)

NoFound == [addr |-> NoneAddr, response |-> "none", create |-> "none"]

NoWait == [addr |-> NoneAddr, iterations |-> 0]

\* The run of consecutive entries in state st that the dict comprehension over
\* groupby keeps: a later run with the same state replaces an earlier one.
LastRunStart(s, st) ==
    LET starts == {i \in DOMAIN s : s[i].state = st /\ (i = 1 \/ s[i - 1].state # st)}
    IN  IF starts = {} THEN 0 ELSE CHOOSE i \in starts : \A j \in starts : j <= i

\* sessions.get(st, []) of _update_sessions: indices of the entries grouped under st
Group(s, st) ==
    LET first == LastRunStart(s, st)
    IN  {i \in DOMAIN s : first > 0 /\ i >= first /\ \A j \in first..i : s[j].state = st}

\* a faulty variant: a session is started for every device
AllDevices(devs, s) == devs

\* self.devices.keys() - self.sessions.keys()
MissingSessions(devs, s) == devs \ SessionKeys(s)

\* _start_session for the devices of order, one by one:
\* self.sessions[device_address] = (STARTING, future)
RECURSIVE StartSessions(_, _)
StartSessions(s, order) ==
    IF order = <<>> THEN s
    ELSE StartSessions(SetSession(s, SessionEntry(Head(order), "STARTING", FALSE, TRUE, "")),
                       Tail(order))

\* _terminate_session(session) without blocking, for the sessions of the addresses A:
\* self.sessions[device_address] = (TERMINATING, future)
MarkTerminating(s, A, cause) ==
    [i \in DOMAIN s |-> IF s[i].addr \in A
                         THEN SessionEntry(s[i].addr, "TERMINATING", FALSE, TRUE, cause)
                         ELSE s[i]]

\* a faulty variant: the session is not registered with the selector
NotRegistered(selector, started) == selector

\* self.session_selector.register(session, selectors.EVENT_READ)
Register(selector, started) == selector \cup started

\* a faulty variant: the session stays registered
KeepRegistered(selector, A) == selector

\* self.session_selector.unregister(session)
Unregister(selector, A) == selector \ A

\* a faulty variant: the remaining time is not clamped
UnclampedPollDelay(last, now) ==
    IF last = NoTime THEN 0 ELSE (last + attached_poll_period) - now

\* _calculate_poll_delay, now counted from the time origin of last
CalculatePollDelay(last, now) ==
    IF last = NoTime THEN 0 ELSE Max((last + attached_poll_period) - now, 0)

\* _get_detatched_device_addresses: any() is true of a non-None address unless it is 0
GetDetatchedDeviceAddresses(devs, has_3299) ==
    LET is_3299_attached == \E a \in devs \ {NoneAddr} : a # 0
        is_3299_not_attached == NoneAddr \in devs
        addresses == IF is_3299_not_attached \/ ~has_3299 THEN <<NoneAddr>>
                     ELSE IF is_3299_attached THEN PORT_MAP_3299
                     ELSE <<NoneAddr>> \o PORT_MAP_3299
    IN  SelectSeq(addresses, LAMBDA a : a \notin devs)

Inc(f, A) == [a \in Addresses |-> IF a \in A THEN f[a] + 1 ELSE f[a]]

MinOf(S) == CHOOSE i \in S : \A j \in S : i <= j

\* ------------------------------------------------------------------- Init
\* Controller.__init__
ControllerInit ==
    /\ pc = "init"
    /\ running = FALSE
    /\ protocol_3299 \in BOOLEAN
    /\ devices = {}
    /\ detatched_device_poll_queue = <<>>
    /\ sessions = <<>>
    /\ session_selector = {}
    /\ selector_open = FALSE
    /\ session_executor = "None"
    /\ start_tasks = [a \in Addresses |-> 0]
    /\ terminate_tasks = [a \in Addresses |-> 0]
    /\ last_attached_poll_time = NoTime
    /\ last_detatched_poll_time = NoTime
    /\ duration = 0
    /\ started_sessions = {}
    /\ updated_sessions = {}
    /\ is_first_iteration = TRUE
    /\ ready = {}
    /\ poll_round = 0
    /\ shutdown_sessions = <<>>
    /\ shutdown_index = 0
    /\ session_started = [a \in Addresses |-> FALSE]
    /\ terminate_calls = [a \in Addresses |-> 0]
    /\ escaped = "none"
    /\ polled = FALSE
    /\ serviced = FALSE
    /\ found = NoFound
    /\ restart_wait = NoWait

\* BufferedDisplay.__init__ followed by Terminal.setup(): the buffers are zero and
\* the device was cleared.  Addresses are 0..last, the status line first.  The
\* device_ fields are the regen and EAB bytes the device holds, written tells
\* whether a write reached the device since.
InitialDisplay(has_eab, last) ==
    [has_eab |-> has_eab,
     regen_buffer |-> [a \in 0..last |-> 0],
     eab_buffer |-> [a \in 0..last |-> 0],
     dirty |-> {},
     device_regen |-> [a \in 0..last |-> 0],
     device_eab |-> [a \in 0..last |-> 0],
     written |-> FALSE]

\* no display is observed
IdleDisplay == InitialDisplay(FALSE, 0)

\* no call of _calculate_poll_delay is observed
IdleDelay == [time |-> 0, last_attached_poll_time |-> NoTime,
              last |-> NoTime, now |-> 0, result |-> 0]

\* the components that the controller specification does not observe
\* data is bytes, or a (pattern, count) tuple
BytesData(bytes) == [tuple |-> FALSE, pattern |-> bytes, count |-> 1]

TupleData(pattern, count) == [tuple |-> TRUE, pattern |-> pattern, count |-> count]

\* max_length is None
NoMaxLength == 0

\* no call of _jumbo_write_split_data is observed
IdleJumbo == [data |-> BytesData(<<>>), max_length |-> NoMaxLength,
              first_chunk_max_length_adjustment |-> -1, chunks |-> <<>>]

\* .get(scan_code) is None, or no key is returned
NoKey == "None"

\* no scan code was passed yet
NoScanCode == -1

\* Keyboard.__init__: modifiers are the set of the KeyboardModifiers flags that are
\* set; keymap is the name of the keymap; call holds the scan code of the last
\* get_key call with the modifiers and the modifier_release flag it found, result
\* what it returned
InitialKeyboard(keymap, single_modifier_release) ==
    [keymap |-> keymap,
     modifiers |-> {},
     single_modifier_release |-> single_modifier_release,
     modifier_release |-> FALSE,
     call |-> [scan_code |-> NoScanCode, modifiers |-> {}, modifier_release |-> FALSE],
     result |-> [key |-> NoKey, modifiers |-> {}, modifiers_changed |-> FALSE]]

\* no keyboard is observed
IdleKeyboard == InitialKeyboard("None", TRUE)

\* Control(step_inhibit, display_inhibit, cursor_inhibit, cursor_reverse,
\* cursor_blink) of Terminal.__init__
InitialControl ==
    [step_inhibit |-> FALSE, display_inhibit |-> FALSE, cursor_inhibit |-> FALSE,
     cursor_reverse |-> FALSE, cursor_blink |-> FALSE]

\* Terminal.__init__ followed by setup(): control is the Control of the terminal,
\* device_control the value of the last LOAD_CONTROL_REGISTER the device executed,
\* clicker is keyboard.clicker, last_poll_keyboard_clicker is "None", "True" or
\* "False".  call holds the last call: its name, its key, the control, alarm and
\* last_poll_keyboard_clicker it found, the controls its LOAD_CONTROL_REGISTER
\* commands carried, the action of its POLL and whether it raised.
InitialTerminal ==
    [control |-> InitialControl,
     device_control |-> InitialControl,
     clicker |-> FALSE,
     alarm |-> FALSE,
     last_poll_keyboard_clicker |-> "None",
     call |-> [name |-> "none", key |-> "None", control |-> InitialControl,
               alarm |-> FALSE, last_poll_keyboard_clicker |-> "None", loads |-> <<>>,
               poll_action |-> "NONE", raised |-> FALSE]]

\* no terminal is observed
IdleTerminal == InitialTerminal

\* address_counter is None
NoCounter == -1

\* a display of the given dimensions whose address_counter is still None, on a
\* device whose address counter is device_counter.  call holds the last call: its
\* name, what it raised ("none", "precondition" or "execute"), the number of device
\* commands it issued, the address_counter and the device counter it found,
\* whether it committed data to the buffers and whether it swallowed an
\* exception.  calls counts the calls made.
InitialCounter(display_dimensions, has_eab, device_counter) ==
    [dimensions |-> display_dimensions,
     has_eab |-> has_eab,
     address_counter |-> NoCounter,
     device_counter |-> device_counter,
     calls |-> 0,
     call |-> [name |-> "none", raised |-> "none", commands |-> 0,
               address_counter |-> NoCounter, device_counter |-> device_counter,
               committed |-> FALSE, swallowed |-> FALSE]]

\* no address counter is observed
IdleCounter == InitialCounter([rows |-> 0, columns |-> 0], FALSE, 0)

\* the sessions dict before a call of _update_sessions; once called, handled is
\* the dict after the futures were handled, registered the addresses whose
\* session the call registered with the selector, raised whether future.result()
\* raised
InitialReaping(entries) ==
    [sessions |-> entries, handled |-> <<>>, registered |-> {}, called |-> FALSE,
     raised |-> FALSE]

\* no call of _update_sessions is observed
IdleReaping == InitialReaping(<<>>)

\* a call of _poll_attached_devices begins with the given devices attached.  pc
\* is the place in the method, round the number of rounds completed, polls the
\* number of POLLs sent to each address, responses the responses of the round
\* (none once execute raised), previous those of the round before, acked the
\* addresses a POLL_ACK of the round was sent to, handled those whose response
\* of the round was handled, detatched the POLL of a detached address that
\* follows the call.
InitialPolling(attached) ==
    [pc |-> "poll",
     attached |-> attached,
     devices |-> attached,
     round |-> 0,
     polls |-> [a \in attached |-> 0],
     responses |-> << >>,
     previous |-> << >>,
     acked |-> {},
     handled |-> {},
     detatched |-> [addr |-> 0, response |-> "none", acked |-> FALSE]]

\* no call of _poll_attached_devices is observed
IdlePolling == InitialPolling({})

\* A TN3270Session the controller has created: telnet is None, the emulator is
\* None.  state is what the controller has done with it (created, active after
\* start(), disconnected after SessionDisconnectedError, terminated, failed after
\* another exception), opens and closes count telnet.open() and telnet.close(),
\* number counts the sessions created, calls the calls made, call is the last call
\* with the state and the closes before it.
InitialHost(number) ==
    [telnet |-> "None",
     emulator |-> "None",
     waiting_on_host |-> FALSE,
     state |-> "created",
     opens |-> 0,
     closes |-> 0,
     number |-> number,
     calls |-> 0,
     call |-> [name |-> "none", result |-> "none", state |-> "created", closes |-> 0]]

\* no TN3270 session is observed
IdleHost == InitialHost(0)

\* A terminal with the sessions entry of its address, before any keystroke: entry
\* is "absent" or the state of the entry, keys and renders count the handle_key
\* and render calls the session got, status_line the writes of the keyboard
\* modifiers, calls the keystrokes handled.  call is the last keystroke: the key,
\* whether the modifiers changed, the entry it found, and what was done.
InitialDispatch(entry) ==
    [terminal |-> InitialTerminal,
     entry |-> entry,
     keys |-> 0,
     renders |-> 0,
     status_line |-> 0,
     calls |-> 0,
     call |-> [key |-> "none", modifiers_changed |-> FALSE, entry |-> entry,
               forwarded |-> FALSE, rendered |-> FALSE, raised |-> "none"]]

\* no keystroke dispatch is observed
IdleDispatch == InitialDispatch("absent")

\* One call of _update_sessions at its while loop: registered are the sessions
\* registered with the selector, started_sessions those the call has just made
\* ACTIVE, duration what is left of the duration.  round holds the sessions of the
\* current round that are still to be handled, selected whether select() ever
\* returned a session; handled, updated, disconnected, terminations and renders
\* record per session the handle_host calls, whether one returned True, whether
\* one raised SessionDisconnectedError, and the _terminate_session and render()
\* calls.
InitialServicing(registered, started, duration_left) ==
    [pc |-> "select",
     registered |-> registered,
     started_sessions |-> started,
     started |-> started,
     duration |-> duration_left,
     is_first_iteration |-> TRUE,
     round |-> {},
     updated_sessions |-> {},
     selected |-> FALSE,
     handled |-> [s \in registered |-> 0],
     updated |-> [s \in registered |-> FALSE],
     disconnected |-> [s \in registered |-> FALSE],
     terminations |-> [s \in registered |-> 0],
     renders |-> [s \in registered |-> 0],
     serviced_after_render |-> FALSE]

\* no call of _update_sessions is observed
IdleServicing == InitialServicing({}, {}, 0)

\* One device address over time: device is the device object stored in devices for
\* the address (0: none; objects are numbered as create_device makes them), created
\* the number of objects made, entry the state of the sessions entry ("absent" if
\* there is none), done whether the future of a STARTING or TERMINATING entry has
\* finished, terminal the device object the session of the entry was created
\* for, updates the calls of _update_sessions, last the last operation.
InitialBinding ==
    [device |-> 0,
     created |-> 0,
     entry |-> "absent",
     done |-> FALSE,
     terminal |-> 0,
     updates |-> 0,
     last |-> "none"]

\* no device address is observed
IdleBinding == InitialBinding

\* The detached polling of a controller that has just been constructed: now is
\* the reading of perf_counter, devices the attached addresses, queue the
\* detatched_device_poll_queue, cycle the addresses polled since the queue was
\* last recomputed.  call is the last call of _poll_next_detatched_device: the
\* time of the call, last_detatched_poll_time and the queue before it, whether it
\* recomputed the queue, the POLLs it issued and whether an exception left it.
InitialDetached(has_3299) ==
    [now |-> 0,
     has_3299 |-> has_3299,
     devices |-> {},
     queue |-> <<>>,
     last_detatched_poll_time |-> NoTime,
     cycle |-> <<>>,
     calls |-> 0,
     call |-> [now |-> 0, last |-> NoTime, queue |-> <<>>, recomputed |-> FALSE,
               polls |-> <<>>, raised |-> FALSE]]

\* no detached polling is observed
IdleDetached == InitialDetached(FALSE)

\* every component but the one named is idle
IdleBut(component) ==
    /\ IF component = "delay" THEN TRUE ELSE delay = IdleDelay
    /\ IF component = "display" THEN TRUE ELSE display = IdleDisplay
    /\ IF component = "jumbo" THEN TRUE ELSE jumbo = IdleJumbo
    /\ IF component = "keyboard" THEN TRUE ELSE keyboard = IdleKeyboard
    /\ IF component = "terminal" THEN TRUE ELSE terminal = IdleTerminal
    /\ IF component = "counter" THEN TRUE ELSE counter = IdleCounter
    /\ IF component = "reaping" THEN TRUE ELSE reaping = IdleReaping
    /\ IF component = "polling" THEN TRUE ELSE polling = IdlePolling
    /\ IF component = "host" THEN TRUE ELSE host = IdleHost
    /\ IF component = "dispatch" THEN TRUE ELSE dispatch = IdleDispatch
    /\ IF component = "servicing" THEN TRUE ELSE servicing = IdleServicing
    /\ IF component = "binding" THEN TRUE ELSE binding = IdleBinding
    /\ IF component = "detached" THEN TRUE ELSE detached = IdleDetached

ComponentsIdle == IdleBut("none")

Init == ControllerInit /\ ComponentsIdle

\* variable groups
deviceVars == <<devices, detatched_device_poll_queue, last_detatched_poll_time, found>>
sessionVars == <<sessions, session_selector, start_tasks, terminate_tasks, restart_wait>>
objectVars == <<session_started, terminate_calls>>
updateLocals == <<started_sessions, updated_sessions, is_first_iteration, ready>>
locals == <<duration, updateLocals, poll_round>>
lifeVars == <<running, protocol_3299, componentVars, selector_open, session_executor, shutdown_sessions,
              shutdown_index>>

\* the locals of _update_sessions and _poll_attached_devices outside these methods
ResetUpdateLocals ==
    /\ started_sessions' = {}
    /\ updated_sessions' = {}
    /\ is_first_iteration' = TRUE
    /\ ready' = {}

\* An exception propagates out of _run_loop and run(): the frames are unwound.
Escape(what) ==
    /\ pc' = "crashed"
    /\ escaped' = what
    /\ duration' = 0
    /\ poll_round' = 0
    /\ ResetUpdateLocals

\* ------------------------------------------------------- run() and stop()
\* run(): self.running = True, selector and executor are created
Run ==
    /\ pc = "init"
    /\ running' = TRUE
    /\ selector_open' = TRUE
    /\ session_executor' = "running"
    /\ pc' = "while"
    /\ UNCHANGED <<protocol_3299, componentVars, shutdown_sessions, shutdown_index, deviceVars, sessionVars,
                   objectVars, locals, last_attached_poll_time, escaped, polled, serviced>>

\* stop(), from the signal handler
Stop ==
    /\ running
    /\ pc \notin {"init", "stopped", "crashed"}
    /\ running' = FALSE
    /\ UNCHANGED <<pc, protocol_3299, componentVars, selector_open, session_executor, shutdown_sessions,
                   shutdown_index, deviceVars, sessionVars, objectVars, locals,
                   last_attached_poll_time, escaped, polled, serviced>>

\* one more iteration has begun without the awaited restart
NextWait(w) == IF w.iterations > 0 /\ w.iterations < 3
               THEN [w EXCEPT !.iterations = @ + 1] ELSE w

\* the awaited restart is over for the addresses A: started, or the device is lost
EndWait(w, A) == IF w.iterations > 0 /\ w.addr \in A THEN NoWait ELSE w

\* if poll_delay > 0: self._update_sessions(poll_delay), then the polls
FirstPhase(poll_delay) == IF poll_delay > 0 THEN "update_sessions" ELSE "poll_attached"

\* a faulty variant: the sessions are updated after the devices were polled
UpdateLast == "update_sessions"

\* the run loop iteration is over after _poll_next_detatched_device
AfterPolls == "while"

\* while self.running: _run_loop() up to the call of _update_sessions
LoopTop ==
    /\ pc = "while"
    /\ found' = NoFound
    /\ IF running
       THEN \E now \in ElapsedSamples :
              LET poll_delay == CalculatePollDelay(last_attached_poll_time,
                                   IF last_attached_poll_time = NoTime THEN 0
                                   ELSE last_attached_poll_time + now)
              IN  /\ duration' = poll_delay
                  /\ pc' = FirstPhase(poll_delay)
                  /\ polled' = FALSE
                  /\ serviced' = FALSE
                  /\ restart_wait' = NextWait(restart_wait)
       ELSE /\ pc' = "shutdown"
            /\ UNCHANGED <<duration, polled, serviced, restart_wait>>
    /\ UNCHANGED <<lifeVars, devices, detatched_device_poll_queue, last_detatched_poll_time,
                   sessions, session_selector, start_tasks, terminate_tasks, objectVars,
                   updateLocals, last_attached_poll_time, poll_round, escaped>>

\* --------------------------------------------------------- _update_sessions
\* _update_sessions up to the while loop: start the missing sessions, make the
\* started sessions ACTIVE (future.result() raises what start_session raised) and
\* remove the terminated ones
UpdateSessionsFutures ==
    /\ pc = "update_sessions"
    /\ \E order \in Orders(MissingSessions(devices, sessions)), elapsed \in ElapsedSamples :
         LET s1 == StartSessions(sessions, order)
             done_starting == {i \in Group(s1, "STARTING") : s1[i].done}
             failed == {i \in done_starting : ~s1[i].ok}
             started == IF failed = {} THEN done_starting
                        ELSE {i \in done_starting : i < MinOf(failed)}
             terminated == {s1[i].addr : i \in {j \in Group(s1, "TERMINATING") : s1[j].done}}
             s2 == [i \in DOMAIN s1 |-> IF i \in started
                                        THEN SessionEntry(s1[i].addr, "ACTIVE", FALSE, TRUE, "")
                                        ELSE s1[i]]
         IN  /\ start_tasks' = Inc(start_tasks, SeqToSet(order))
             /\ restart_wait' = EndWait(restart_wait, SeqToSet(order))
             /\ session_selector' = Register(session_selector, {s1[i].addr : i \in started})
             /\ IF failed # {}
                THEN /\ sessions' = s2
                     /\ Escape("start")
                     /\ UNCHANGED objectVars
                ELSE /\ sessions' = DelSessions(s2, terminated)
                     /\ session_started' = [a \in Addresses |->
                                              a \notin terminated /\ session_started[a]]
                     /\ terminate_calls' = [a \in Addresses |->
                                              IF a \in terminated THEN 0 ELSE terminate_calls[a]]
                     /\ started_sessions' = {s1[i].addr : i \in started}
                     /\ duration' = Max(duration - elapsed, 0)
                     /\ pc' = "select"
                     /\ UNCHANGED <<escaped, updated_sessions, is_first_iteration, ready,
                                    poll_round>>
    /\ UNCHANGED <<lifeVars, deviceVars, terminate_tasks, last_attached_poll_time,
                   polled, serviced>>

\* while duration > 0: sessions = set(self._select_sessions(duration)), the started
\* sessions added in the first round; leaves the loop when there is none
SelectSessions ==
    /\ pc = "select"
    /\ IF duration <= 0
       THEN /\ pc' = "render"
            /\ UNCHANGED ready
       ELSE \E selected \in SUBSET session_selector :
              LET round == selected \cup (IF is_first_iteration THEN started_sessions ELSE {})
              IN  IF round = {}
                  THEN /\ pc' = "render"
                       /\ UNCHANGED ready
                  ELSE /\ pc' = "handle_host"
                       /\ ready' = round
    /\ UNCHANGED <<lifeVars, deviceVars, sessionVars, objectVars, started_sessions,
                   updated_sessions, is_first_iteration, last_attached_poll_time,
                   duration, poll_round, escaped, polled, serviced>>

\* session.handle_host() for one session of the round; SessionDisconnectedError is
\* handled by _handle_session_disconnected, anything else propagates.  After the
\* last session of the round the duration is updated.
HandleHost(a) ==
    /\ pc = "handle_host"
    /\ a \in ready
    /\ serviced' = TRUE
    /\ \E outcome \in {"True", "False", "SessionDisconnectedError", "error"} :
         IF outcome = "error"
         THEN /\ Escape("handle_host")
              /\ UNCHANGED sessionVars
         ELSE /\ updated_sessions' = IF outcome = "True" THEN updated_sessions \cup {a}
                                     ELSE IF outcome = "False" THEN updated_sessions
                                     ELSE updated_sessions \ {a}
              /\ IF outcome = "SessionDisconnectedError"
                 THEN /\ session_selector' = Unregister(session_selector, {a})
                      /\ terminate_tasks' = Inc(terminate_tasks, {a})
                      /\ sessions' = MarkTerminating(sessions, {a}, "disconnected")
                      /\ restart_wait' = IF a \in devices
                                         THEN [addr |-> a, iterations |-> 1]
                                         ELSE restart_wait
                      /\ UNCHANGED start_tasks
                 ELSE UNCHANGED sessionVars
              /\ ready' = ready \ {a}
              /\ IF ready' = {}
                 THEN \E elapsed \in ElapsedSamples :
                        /\ duration' = Max(duration - elapsed, 0)
                        /\ is_first_iteration' = FALSE
                        /\ started_sessions' = {}
                        /\ pc' = "select"
                 ELSE UNCHANGED <<duration, is_first_iteration, started_sessions, pc>>
              /\ UNCHANGED <<escaped, poll_round>>
    /\ UNCHANGED <<lifeVars, deviceVars, objectVars, last_attached_poll_time, polled>>

\* for session in updated_sessions: session.render(); then the rest of the poll
\* delay is slept.  A display write of render() may raise.
RenderSessions ==
    /\ pc = "render"
    /\ \E ok \in (IF updated_sessions = {} THEN {TRUE} ELSE BOOLEAN) :
         IF ok
         THEN /\ pc' = "poll_attached"
              /\ duration' = 0
              /\ ResetUpdateLocals
              /\ UNCHANGED <<escaped, poll_round>>
         ELSE Escape("display")
    /\ serviced' = (serviced \/ updated_sessions # {})
    /\ UNCHANGED <<lifeVars, deviceVars, sessionVars, objectVars, last_attached_poll_time,
                   polled>>

\* ----------------------------------------------------- _poll_attached_devices
\* What interface.execute gives for the POLL of one attached device: None (TT/AR),
\* a keystroke, another response (power on reset complete), or an error.
AttachedResponses == {"TTAR", "Keystroke", "POR", "ReceiveTimeout", "ReceiveError", "ProtocolError"}

\* a faulty variant: pair[1] is not None
NotNone(responses) ==
    {a \in DOMAIN responses : responses[a] \in {"Keystroke", "POR", "ReceiveTimeout"}}

\* pair[1] is not None and not isinstance(pair[1], ReceiveTimeout)
Handleable(responses) == {a \in DOMAIN responses : responses[a] \in {"Keystroke", "POR"}}

\* isinstance(poll_response, ReceiveTimeout)
LostDevices(responses) == {a \in DOMAIN responses : responses[a] = "ReceiveTimeout"}

\* the sessions _handle_device_lost terminates: those that are ACTIVE
ActiveSessionsOf(s, lost) == {a \in lost : SessionStateOf(s, a) = "ACTIVE"}

\* One round of the loop of _poll_attached_devices: POLL every attached device,
\* POLL_ACK and handle the responses, then handle the lost devices.  An error other
\* than a receive timeout makes execute raise, as does a failing POLL_ACK or a
\* failing display write for a keystroke; nothing here catches it.
PollAttachedDevices ==
    /\ pc = "poll_attached"
    /\ last_attached_poll_time' = 0
    /\ IF devices = {}
       THEN /\ pc' = "poll_detatched"
            /\ UNCHANGED <<devices, sessions, session_selector, terminate_tasks, restart_wait,
                           locals, escaped, polled>>
       ELSE \E responses \in [devices -> AttachedResponses] :
              /\ polled' = TRUE
              /\ IF \E a \in devices : responses[a] \in {"ReceiveError", "ProtocolError"}
                 THEN /\ Escape("POLL")
                      /\ UNCHANGED <<devices, sessions, session_selector, terminate_tasks,
                                     restart_wait>>
                 ELSE \E ack \in {"ok"}
                                  \cup (IF Handleable(responses) = {} THEN {} ELSE {"POLL_ACK"})
                                  \cup (IF \E a \in devices : responses[a] = "Keystroke"
                                        THEN {"display"} ELSE {}) :
                        IF ack # "ok"
                        THEN /\ Escape(ack)
                             /\ UNCHANGED <<devices, sessions, session_selector,
                                            terminate_tasks, restart_wait>>
                        ELSE LET lost == LostDevices(responses)
                                 active == ActiveSessionsOf(sessions, lost)
                                 more == Handleable(responses) # {} /\ poll_round + 1 < poll_depth
                             IN  /\ session_selector' = Unregister(session_selector, active)
                                 /\ terminate_tasks' = Inc(terminate_tasks, active)
                                 /\ sessions' = MarkTerminating(sessions, active, "lost")
                                 /\ devices' = devices \ lost
                                 /\ restart_wait' = EndWait(restart_wait, lost)
                                 /\ pc' = IF more THEN "poll_attached" ELSE "poll_detatched"
                                 /\ poll_round' = IF more THEN poll_round + 1 ELSE 0
                                 /\ UNCHANGED <<escaped, duration, updateLocals>>
    /\ UNCHANGED <<lifeVars, detatched_device_poll_queue, last_detatched_poll_time, found,
                   start_tasks, objectVars, serviced>>

\* ------------------------------------------------- _poll_next_detatched_device
\* What interface.execute gives for the POLL of a detached address: an exception,
\* None (TT/AR) or a response (power on reset complete).
DetatchedResponses == {"ReceiveTimeout", "ReceiveError", "ProtocolError", "TTAR", "POR"}

\* a faulty variant: a protocol error is not caught
PollRaisedNoProtocolError(response) == response \in {"ReceiveTimeout", "ReceiveError"}

\* the except clauses of the POLL: the method returns
PollRaised(response) == response \in {"ReceiveTimeout", "ReceiveError", "ProtocolError"}

\* What create_device does: a device, UnsupportedDeviceError (__main__._create_device),
\* UnsupportedTerminalError (terminal.create_terminal) or a coax error.
CreateDeviceResults == {"device", "UnsupportedDeviceError", "UnsupportedTerminalError", "error"}

\* except UnsupportedDeviceError of _handle_device_found
Caught(result) == result = "UnsupportedDeviceError"

\* _poll_next_detatched_device with _handle_device_found.  step is where the
\* method ends: a failing POLL_ACK, what create_device does, or a failing setup().
PollNextDetatchedDevice ==
    /\ pc = "poll_detatched"
    /\ \E elapsed \in ElapsedSamples :
         IF last_detatched_poll_time # NoTime /\ elapsed < detatched_poll_period
         THEN /\ pc' = AfterPolls
              /\ UNCHANGED <<deviceVars, locals, escaped, polled>>
         ELSE LET queue == IF detatched_device_poll_queue = <<>>
                           THEN GetDetatchedDeviceAddresses(devices, protocol_3299)
                           ELSE detatched_device_poll_queue
              IN  /\ last_detatched_poll_time' = 0
                  /\ IF queue = <<>>
                     THEN /\ pc' = AfterPolls
                          /\ UNCHANGED <<devices, detatched_device_poll_queue, found, locals,
                                         escaped, polled>>
                     ELSE \E response \in DetatchedResponses :
                            /\ detatched_device_poll_queue' = Tail(queue)
                            /\ polled' = TRUE
                            /\ IF PollRaised(response)
                               THEN /\ pc' = AfterPolls
                                    /\ found' = [addr |-> Head(queue), response |-> response,
                                                 create |-> "none"]
                                    /\ UNCHANGED <<devices, locals, escaped>>
                               ELSE \E step \in {"POLL_ACK", "setup"} \cup CreateDeviceResults :
                                      /\ step = "POLL_ACK" => response # "TTAR"
                                      /\ found' = [addr |-> Head(queue), response |-> response,
                                                   create |-> IF step = "POLL_ACK" THEN "none"
                                                              ELSE IF step = "setup" THEN "device"
                                                              ELSE step]
                                      /\ IF step = "device"
                                         THEN /\ devices' = devices \cup {Head(queue)}
                                              /\ pc' = AfterPolls
                                              /\ UNCHANGED <<locals, escaped>>
                                         ELSE IF Caught(step)
                                         THEN /\ pc' = AfterPolls
                                              /\ UNCHANGED <<devices, locals, escaped>>
                                         ELSE /\ Escape(IF step = "error" THEN "create_device"
                                                        ELSE step)
                                              /\ UNCHANGED devices
    /\ UNCHANGED <<lifeVars, sessionVars, objectVars, last_attached_poll_time, serviced>>

\* ------------------------------------------------------------ worker pool
\* the future of the entry of address a is done
FutureDone(s, a, state, ok) ==
    [i \in DOMAIN s |-> IF s[i].addr = a /\ s[i].state = state
                         THEN [s[i] EXCEPT !.done = TRUE, !.ok = ok]
                         ELSE s[i]]

\* start_session() in a worker: create_session(device), session.start().  start()
\* may raise (the host refuses the connection); the future then holds the exception.
WorkerStartSession(a) ==
    /\ pc # "crashed"
    /\ start_tasks[a] > 0
    /\ \E ok \in BOOLEAN :
         /\ session_started' = [session_started EXCEPT ![a] = ok]
         /\ sessions' = FutureDone(sessions, a, "STARTING", ok)
    /\ terminate_calls' = [terminate_calls EXCEPT ![a] = 0]
    /\ start_tasks' = [start_tasks EXCEPT ![a] = @ - 1]
    /\ UNCHANGED <<pc, lifeVars, deviceVars, session_selector, terminate_tasks, restart_wait,
                   locals, last_attached_poll_time, escaped, polled, serviced>>

\* terminate_session() in a worker: session.terminate()
WorkerTerminateSession(a) ==
    /\ pc # "crashed"
    /\ terminate_tasks[a] > 0
    /\ terminate_calls' = [terminate_calls EXCEPT ![a] = IF @ < 2 THEN @ + 1 ELSE @]
    /\ sessions' = FutureDone(sessions, a, "TERMINATING", TRUE)
    /\ terminate_tasks' = [terminate_tasks EXCEPT ![a] = @ - 1]
    /\ UNCHANGED <<pc, lifeVars, deviceVars, session_selector, start_tasks, restart_wait,
                   session_started, locals, last_attached_poll_time, escaped, polled, serviced>>

\* ------------------------------------------------------- run() after the loop
\* [session for (state, session) in self.sessions.values() if state == ACTIVE]
ActiveSessions(s) ==
    LET active == SelectSeq(s, LAMBDA e : e.state = "ACTIVE")
    IN  [i \in DOMAIN active |-> active[i].addr]

\* self.session_executor.shutdown(wait=True): returns when every task has finished
ShutdownExecutor ==
    /\ pc = "shutdown"
    /\ \A a \in Addresses : start_tasks[a] = 0 /\ terminate_tasks[a] = 0
    /\ session_executor' = "None"
    /\ shutdown_sessions' = ActiveSessions(sessions)
    /\ shutdown_index' = 0
    /\ pc' = "terminate_active"
    /\ UNCHANGED <<running, protocol_3299, componentVars, selector_open, deviceVars, sessionVars, objectVars,
                   locals, last_attached_poll_time, escaped, polled, serviced>>

\* _terminate_session(session, blocking=True): self.session_selector.unregister(session)
TerminateUnregister ==
    /\ pc = "terminate_active"
    /\ shutdown_index < Len(shutdown_sessions)
    /\ session_selector' = Unregister(session_selector, {shutdown_sessions[shutdown_index + 1]})
    /\ pc' = "terminate_session"
    /\ UNCHANGED <<lifeVars, deviceVars, sessions, start_tasks, terminate_tasks, restart_wait,
                   objectVars, locals, last_attached_poll_time, escaped, polled, serviced>>

\* _terminate_session(session, blocking=True): session.terminate() and
\* del self.sessions[device_address]
TerminateBlocking ==
    /\ pc = "terminate_session"
    /\ terminate_calls' = [terminate_calls EXCEPT
                             ![shutdown_sessions[shutdown_index + 1]] = IF @ < 2 THEN @ + 1 ELSE @]
    /\ sessions' = DelSessions(sessions, {shutdown_sessions[shutdown_index + 1]})
    /\ shutdown_index' = shutdown_index + 1
    /\ pc' = "terminate_active"
    /\ UNCHANGED <<running, protocol_3299, componentVars, selector_open, session_executor, shutdown_sessions,
                   deviceVars, session_selector, start_tasks, terminate_tasks, restart_wait,
                   session_started, locals, last_attached_poll_time, escaped, polled, serviced>>

\* self.session_selector.close() and the clearing of sessions, devices and the queue
CloseAndClear ==
    /\ pc = "terminate_active"
    /\ shutdown_index = Len(shutdown_sessions)
    /\ selector_open' = FALSE
    /\ session_selector' = {}
    /\ sessions' = <<>>
    /\ devices' = {}
    /\ detatched_device_poll_queue' = <<>>
    /\ pc' = "stopped"
    /\ UNCHANGED <<running, protocol_3299, componentVars, session_executor, shutdown_sessions, shutdown_index,
                   last_detatched_poll_time, found, start_tasks, terminate_tasks, restart_wait,
                   objectVars, locals, last_attached_poll_time, escaped, polled, serviced>>

\* ------------------------------------------------------------------- Next
Next ==
    \/ Run
    \/ Stop
    \/ LoopTop
    \/ UpdateSessionsFutures
    \/ SelectSessions
    \/ \E a \in Addresses : HandleHost(a)
    \/ RenderSessions
    \/ PollAttachedDevices
    \/ PollNextDetatchedDevice
    \/ \E a \in Addresses : WorkerStartSession(a)
    \/ \E a \in Addresses : WorkerTerminateSession(a)
    \/ ShutdownExecutor
    \/ TerminateUnregister
    \/ TerminateBlocking
    \/ CloseAndClear

Spec == Init /\ [][Next]_vars

\* ----------------------------------------------------------------- claims
\* entries of self.sessions in one of the given states
EntriesIn(states) == {i \in DOMAIN sessions : sessions[i].state \in states}

\* C1: when the host side of a session disconnects while the terminal stays
\* attached, a replacement session start is submitted within the same or the next
\* run-loop iteration (restart_wait never counts a second iteration begun after the
\* one of the disconnect), and between iterations the attached device always has a
\* sessions entry.
C1_RestartWithinNextIteration ==
    /\ restart_wait.iterations < 3
    /\ (pc = "while" /\ restart_wait.iterations > 0)
         => restart_wait.addr \in SessionKeys(sessions)

\* C2: when an attached device with an ACTIVE session is lost, its session is
\* unregistered from the selector, terminate() is called on it at most once and,
\* once the task is done, exactly once, and the TERMINATING entry does not outlive
\* the run: it is removed before run() ends.
C2_LostSessionEntryRemoved ==
    \A i \in EntriesIn({"TERMINATING"}) :
        sessions[i].cause = "lost" =>
            /\ sessions[i].addr \notin session_selector
            /\ terminate_calls[sessions[i].addr] <= 1
            /\ sessions[i].done => terminate_calls[sessions[i].addr] = 1
            /\ pc \notin {"crashed", "stopped"}

\* C3: a session never outlives its terminal: every STARTING or ACTIVE entry of
\* sessions belongs to a device that is attached.
C3_SessionNeverOutlivesTerminal ==
    \A i \in EntriesIn({"STARTING", "ACTIVE"}) : sessions[i].addr \in devices

\* C4, as stated: a device is created for a polled detached address only when the
\* POLL response is non-empty.
C4_CreateOnlyOnNonEmptyResponse ==
    found.create # "none" => found.response = "POR"

\* C4, amended: create_device is called and a device attached for a polled detached
\* address only when the POLL returned without raising, with an empty (TT/AR) or a
\* non-empty response; a ReceiveTimeout, ReceiveError or ProtocolError of the POLL
\* calls no create_device and attaches nothing, and the polled address is attached
\* at the end of the iteration only when create_device gave a device.
C4_CreateOnlyWhenPollReturns ==
    /\ found.create # "none" => found.response \in {"TTAR", "POR"}
    /\ found.response \in {"ReceiveTimeout", "ReceiveError", "ProtocolError"}
         => found.create = "none" /\ found.addr \notin devices
    /\ (found.response # "none" /\ found.addr \in devices) => found.create = "device"

\* an empty POLL response has attached a device
C4_Witness ==
    /\ found.response = "TTAR"
    /\ found.create = "device"
    /\ found.addr \in devices
    /\ pc = "while"

\* C5: UnsupportedDeviceError and UnsupportedTerminalError raised by create_device
\* are handled: no device is attached and the run loop continues.
C5_UnsupportedHandled ==
    found.create \in {"UnsupportedDeviceError", "UnsupportedTerminalError"}
        => /\ escaped = "none"
           /\ pc = "while"
           /\ found.addr \notin devices

\* C6: no exception propagates out of the run loop.
C6_NothingEscapes == escaped = "none"

\* C7: after stop() the loop finishes its iteration and run() returns with every
\* ACTIVE session terminated exactly once, the selector closed, the executor shut
\* down, and sessions, devices and the detached poll queue cleared.
C7_OrderlyShutdown ==
    /\ (~running /\ pc # "init") => pc # "crashed"
    /\ pc = "stopped" =>
         /\ sessions = <<>>
         /\ devices = {}
         /\ detatched_device_poll_queue = <<>>
         /\ ~selector_open
         /\ session_selector = {}
         /\ session_executor = "None"
         /\ \A i \in DOMAIN shutdown_sessions : terminate_calls[shutdown_sessions[i]] = 1

\* C8: a session is unregistered from the selector strictly before its terminate
\* hook runs, and is never serviced afterwards: a session with a submitted or
\* running terminate, or whose terminate() has been called, is not registered, and
\* every session about to be handled is registered and ACTIVE.
C8_UnregisterBeforeTerminate ==
    /\ \A a \in Addresses : terminate_tasks[a] > 0 => a \notin session_selector
    /\ \A a \in Addresses : terminate_calls[a] > 0 => a \notin session_selector
    /\ \A i \in EntriesIn({"TERMINATING"}) : sessions[i].addr \notin session_selector
    /\ pc = "terminate_session" => shutdown_sessions[shutdown_index + 1] \notin session_selector
    /\ pc = "handle_host" =>
         \A a \in ready : a \in session_selector /\ SessionStateOf(sessions, a) = "ACTIVE"

\* terminate() has run in a worker for a session that was unregistered before
C8_Witness ==
    \E a \in Addresses :
        /\ terminate_calls[a] = 1
        /\ SessionStateOf(sessions, a) = "TERMINATING"
        /\ a \notin session_selector

\* futures of address a that have finished but are still held by its sessions entry
Unreaped(a) ==
    IF \E i \in EntriesIn({"STARTING", "TERMINATING"}) : sessions[i].addr = a /\ sessions[i].done
    THEN 1 ELSE 0

\* C9: at most one start or terminate future is in flight per device address, and a
\* start is in flight only for the STARTING entry of that address.
C9_OneFuturePerAddress ==
    \A a \in Addresses :
        /\ start_tasks[a] + terminate_tasks[a] + Unreaped(a) <= 1
        /\ start_tasks[a] > 0 => SessionStateOf(sessions, a) = "STARTING"
        /\ terminate_tasks[a] > 0 => SessionStateOf(sessions, a) = "TERMINATING"

\* a terminate is in flight for an address whose device is attached and waits
C9_Witness ==
    \E a \in Addresses :
        /\ terminate_tasks[a] = 1
        /\ start_tasks[a] = 0
        /\ a \in devices
        /\ pc = "update_sessions"

\* C10: in every run-loop iteration the host I/O servicing of _update_sessions
\* (selector wait, handle_host, render) is over before the first POLL of that
\* iteration is issued.
C10_ServiceBeforePoll ==
    pc \in {"update_sessions", "select", "handle_host", "render"} => ~polled

\* an iteration has serviced host I/O and then polled
C10_Witness == serviced /\ polled /\ pc = "while"

\* ------------------------------------------------- _calculate_poll_delay
\* Times of the poll delay specification run from 0 to MaxTime ticks.
MaxTime == 12

\* _run_loop: poll_delay = self._calculate_poll_delay() at a later reading of the
\* clock (time); last and now are the values the call used
DelayCalculate ==
    /\ \E now \in delay.time..MaxTime :
         delay' = [delay EXCEPT !.time = now,
                                !.last = delay.last_attached_poll_time,
                                !.now = now,
                                !.result = CalculatePollDelay(delay.last_attached_poll_time, now)]
    /\ UNCHANGED exceptDelay

\* _poll_attached_devices: self.last_attached_poll_time = time.perf_counter()
DelayPoll ==
    /\ \E now \in delay.time..MaxTime :
         delay' = [delay EXCEPT !.time = now, !.last_attached_poll_time = now]
    /\ UNCHANGED exceptDelay

InitPollDelay == ControllerInit /\ ~protocol_3299 /\ ComponentsIdle

NextPollDelay == DelayCalculate \/ DelayPoll

SpecPollDelay == InitPollDelay /\ [][NextPollDelay]_vars

\* C11: _calculate_poll_delay never returns a negative value: 0 when no attached
\* poll has been issued, otherwise the time that remains until
\* last_attached_poll_time + attached_poll_period, and 0 once that time has passed,
\* however long ago.
C11_PollDelayNotNegative ==
    /\ delay.result >= 0
    /\ delay.last = NoTime => delay.result = 0
    /\ (delay.last # NoTime /\ delay.now <= delay.last + attached_poll_period)
         => delay.result = delay.last + attached_poll_period - delay.now
    /\ (delay.last # NoTime /\ delay.now > delay.last + attached_poll_period)
         => delay.result = 0

\* the delay was calculated long after the target time
C11_Witness ==
    /\ delay.last # NoTime
    /\ delay.now > delay.last + 2 * attached_poll_period
    /\ delay.result = 0

\* ------------------------------------------------------- BufferedDisplay
\* Rows of the modelled display, the status line row not included.
DisplayRows == 2

\* Dimensions(rows, columns)
dimensions == [rows |-> DisplayRows, columns |-> 1]

\* Display.last_address
last_address == ((dimensions.rows + 1) * dimensions.columns) - 1

DisplayAddresses == 0..last_address

\* the values of a regen or EAB byte
Bytes == {0, 1}

\* eab_byte is None
NoByte == -1

MinAddress(S) == CHOOSE a \in S : \A b \in S : a <= b

MaxAddress(S) == CHOOSE a \in S : \A b \in S : a >= b

\* buffer[start_address:end_address+1]
Slice(buffer, start_address, end_address) ==
    [i \in 1..(end_address - start_address + 1) |-> buffer[start_address + i - 1]]

\* What the device does with the commands of one Display.write: it executes them
\* (ok), or terminal.execute raises before any byte is written (failed).
WriteOutcomes == {"ok", "failed"}

\* Display.write(regen_data, eab_data, address=address), eab_data <<>> for None:
\* raised tells whether an exception left the method.  The address counter is
\* loaded with address before the data is written (_load_address_counter), so the
\* bytes go to address and the addresses after it; the counter itself is not kept
\* here, and restore_original_address only concerns the counter.
DisplayWrite(d, regen_data, eab_data, address, outcome) ==
    IF eab_data # <<>> /\ ~d.has_eab THEN [d |-> d, raised |-> TRUE]
    ELSE IF outcome = "failed" THEN [d |-> d, raised |-> TRUE]
    ELSE LET hit == address..(address + Len(regen_data) - 1)
         IN  [d |-> [d EXCEPT !.device_regen = [a \in DisplayAddresses |->
                                   IF a \in hit THEN regen_data[a - address + 1]
                                   ELSE d.device_regen[a]],
                              !.device_eab = [a \in DisplayAddresses |->
                                   IF a \in hit /\ eab_data # <<>>
                                   THEN eab_data[a - address + 1]
                                   ELSE d.device_eab[a]],
                              !.written = TRUE],
              raised |-> FALSE]

\* a faulty variant: the addresses stay in dirty
CommitKeepsDirty(d, start_address, regen_data, eab_data) ==
    LET hit == start_address..(start_address + Len(regen_data) - 1)
    IN  [d EXCEPT !.regen_buffer = [a \in DisplayAddresses |->
                                      IF a \in hit THEN regen_data[a - start_address + 1]
                                      ELSE d.regen_buffer[a]],
                  !.eab_buffer = [a \in DisplayAddresses |->
                                    IF a \in hit /\ eab_data # <<>>
                                    THEN eab_data[a - start_address + 1]
                                    ELSE d.eab_buffer[a]]]

\* _commit: the written bytes go to the buffers and their addresses leave dirty
Commit(d, start_address, regen_data, eab_data) ==
    LET hit == start_address..(start_address + Len(regen_data) - 1)
    IN  [d EXCEPT !.regen_buffer = [a \in DisplayAddresses |->
                                      IF a \in hit THEN regen_data[a - start_address + 1]
                                      ELSE d.regen_buffer[a]],
                  !.eab_buffer = [a \in DisplayAddresses |->
                                    IF a \in hit /\ eab_data # <<>>
                                    THEN eab_data[a - start_address + 1]
                                    ELSE d.eab_buffer[a]],
                  !.dirty = d.dirty \ hit]

\* BufferedDisplay.write: the write of Display, then _commit unless it raised
BufferedWrite(d, regen_data, eab_data, address, outcome) ==
    LET w == DisplayWrite(d, regen_data, eab_data, address, outcome)
    IN  IF w.raised THEN w
        ELSE [d |-> Commit(w.d, address, regen_data, eab_data), raised |-> FALSE]

\* a faulty variant: the address is not marked dirty
BufferedWriteByteNotDirty(d, regen_byte, eab_byte, address) ==
    IF eab_byte # NoByte /\ ~d.has_eab THEN [d |-> d, result |-> "RuntimeError"]
    ELSE IF d.regen_buffer[address] = regen_byte
            /\ (~d.has_eab \/ d.eab_buffer[address] = eab_byte)
    THEN [d |-> d, result |-> "False"]
    ELSE [d |-> [d EXCEPT !.regen_buffer[address] = regen_byte,
                          !.eab_buffer[address] = IF d.has_eab THEN eab_byte ELSE @],
          result |-> "True"]

\* buffered_write_byte(regen_byte, eab_byte, address=address)
BufferedWriteByte(d, regen_byte, eab_byte, address) ==
    IF eab_byte # NoByte /\ ~d.has_eab THEN [d |-> d, result |-> "RuntimeError"]
    ELSE IF d.regen_buffer[address] = regen_byte
            /\ (~d.has_eab \/ d.eab_buffer[address] = eab_byte)
    THEN [d |-> d, result |-> "False"]
    ELSE [d |-> [d EXCEPT !.regen_buffer[address] = regen_byte,
                          !.eab_buffer[address] = IF d.has_eab THEN eab_byte ELSE @,
                          !.dirty = @ \cup {address}],
          result |-> "True"]

\* a faulty variant: only the lowest dirty address is written
LowestDirtyAddress(dirty) ==
    IF dirty = {} THEN <<>> ELSE << <<MinAddress(dirty), MinAddress(dirty)>> >>

\* _get_dirty_ranges: [(self.dirty[0], self.dirty[-1])] of the sorted set
GetDirtyRanges(dirty) ==
    IF dirty = {} THEN <<>> ELSE << <<MinAddress(dirty), MaxAddress(dirty)>> >>

\* the write of _write_range(start_address, end_address)
RangeWrite(d, range) ==
    [address |-> range[1],
     regen_data |-> Slice(d.regen_buffer, range[1], range[2]),
     eab_data |-> IF d.has_eab THEN Slice(d.eab_buffer, range[1], range[2]) ELSE <<>>]

\* the writes flush() issues, one for each dirty range
FlushWrites(d) ==
    LET dirty_ranges == GetDirtyRanges(d.dirty)
    IN  [i \in DOMAIN dirty_ranges |-> RangeWrite(d, dirty_ranges[i])]

\* _write_range for the i-th write on: an exception of write is logged, not raised
RECURSIVE WriteRanges(_, _, _, _)
WriteRanges(d, writes, i, outcome) ==
    IF i > Len(writes) THEN d
    ELSE WriteRanges(BufferedWrite(d, writes[i].regen_data, writes[i].eab_data,
                                   writes[i].address, outcome).d,
                     writes, i + 1, outcome)

\* flush()
Flush(d, outcome) ==
    LET writes == FlushWrites(d)
    IN  IF writes = <<>> THEN [d |-> d, result |-> "False"]
        ELSE [d |-> WriteRanges(d, writes, 1, outcome), result |-> "True"]

\* clear(clear_status_line): a write of zeros (move_cursor, which follows, loads
\* the address counter)
Clear(d, clear_status_line, outcome) ==
    LET address == IF clear_status_line THEN 0 ELSE dimensions.columns
        count == IF clear_status_line THEN (dimensions.rows + 1) * dimensions.columns
                 ELSE dimensions.rows * dimensions.columns
        regen_data == [i \in 1..count |-> 0]
    IN  BufferedWrite(d, regen_data, IF d.has_eab THEN regen_data ELSE <<>>,
                      address, outcome)

\* StatusLine.write(column, data)
StatusLineWrite(d, column, data, outcome) ==
    IF column >= dimensions.columns \/ column + Len(data) > dimensions.columns
    THEN [d |-> d, raised |-> TRUE]
    ELSE BufferedWrite(d, data, <<>>, column, outcome)

\* the addresses whose regen or EAB byte in the buffer is not the byte last
\* written to the device
Differing(d) ==
    {a \in DisplayAddresses :
        \/ d.regen_buffer[a] # d.device_regen[a]
        \/ d.has_eab /\ d.eab_buffer[a] # d.device_eab[a]}

\* the arguments of a direct write: regen data, and EAB data of the same length or
\* none
WriteData(has_eab) ==
    UNION {{[regen_data |-> r, eab_data |-> e] :
              r \in [1..n -> Bytes],
              e \in {<<>>} \cup (IF has_eab THEN [1..n -> Bytes] ELSE {})} : n \in 1..2}

\* the EAB bytes buffered_write_byte is called with: a byte when the display has
\* the EAB feature, and a byte (which raises) or None when it has not
EabBytes(has_eab) == Bytes \cup (IF has_eab THEN {} ELSE {NoByte})

\* a call of buffered_write_byte
DoBufferedWriteByte ==
    /\ \E address \in DisplayAddresses, regen_byte \in Bytes :
         \E eab_byte \in EabBytes(display.has_eab) :
            display' = BufferedWriteByte(display, regen_byte, eab_byte, address).d
    /\ UNCHANGED exceptDisplay

\* a call of flush
DoFlush ==
    /\ \E outcome \in WriteOutcomes : display' = Flush(display, outcome).d
    /\ UNCHANGED exceptDisplay

\* a call of write with an address
DoWrite ==
    /\ \E address \in DisplayAddresses, data \in WriteData(display.has_eab),
          outcome \in WriteOutcomes :
         /\ address + Len(data.regen_data) - 1 <= last_address
         /\ display' = BufferedWrite(display, data.regen_data, data.eab_data,
                                     address, outcome).d
    /\ UNCHANGED exceptDisplay

\* a call of status_line.write
DoStatusLineWrite ==
    /\ \E column \in 0..(dimensions.columns - 1), byte \in Bytes, outcome \in WriteOutcomes :
         display' = StatusLineWrite(display, column, <<byte>>, outcome).d
    /\ UNCHANGED exceptDisplay

\* a call of clear
DoClear ==
    /\ \E clear_status_line \in BOOLEAN, outcome \in WriteOutcomes :
         display' = Clear(display, clear_status_line, outcome).d
    /\ UNCHANGED exceptDisplay

InitDisplay ==
    /\ ControllerInit
    /\ ~protocol_3299
    /\ IdleBut("display")
    /\ \E has_eab \in BOOLEAN : display = InitialDisplay(has_eab, last_address)

NextDisplay ==
    \/ DoBufferedWriteByte
    \/ DoFlush
    \/ DoWrite
    \/ DoStatusLineWrite
    \/ DoClear

SpecDisplay == InitDisplay /\ [][NextDisplay]_vars

\* C12 as stated: while only buffered_write_byte has changed the display, the
\* dirty set equals exactly the set of addresses whose buffer content differs
\* from what the device holds.
C12_DirtyEqualsDiffering ==
    ~display.written => display.dirty = Differing(display)

\* C12: the dirty set after buffered_write_byte calls contains every address whose
\* buffer content differs from what the device holds (and may contain an address
\* whose content was changed and changed back); a call that does not change the
\* buffer returns False and leaves the display as it was, a call that changes it
\* returns True, stores the bytes, adds its address to the dirty set and no other,
\* and leaves no differing address outside the dirty set that was not outside it
\* before.
C12_DirtyCoversDiffering ==
    /\ ~display.written => Differing(display) \subseteq display.dirty
    /\ \A address \in DisplayAddresses, regen_byte \in Bytes :
         \A eab_byte \in (IF display.has_eab THEN Bytes ELSE {NoByte}) :
            LET r == BufferedWriteByte(display, regen_byte, eab_byte, address)
                same == /\ display.regen_buffer[address] = regen_byte
                        /\ display.has_eab => display.eab_buffer[address] = eab_byte
            IN  /\ same => r.result = "False" /\ r.d = display
                /\ ~same =>
                     /\ r.result = "True"
                     /\ r.d.dirty = display.dirty \cup {address}
                     /\ r.d.regen_buffer[address] = regen_byte
                     /\ display.has_eab => r.d.eab_buffer[address] = eab_byte
                     /\ (Differing(r.d) \ r.d.dirty) \subseteq (Differing(display) \ display.dirty)

\* a byte was changed and changed back: its address is dirty and does not differ
C12_Witness ==
    /\ ~display.written
    /\ display.dirty # {}
    /\ display.dirty # Differing(display)
    /\ Differing(display) # {}

\* C13: with an empty dirty set flush() returns False and issues no device
\* command; otherwise it returns True, and after it returns the dirty set is empty
\* and every byte of the flushed range on the device (regen, and EAB when present)
\* equals the buffer.  Stated for the flush of every reachable display, whatever
\* the device does with the write.
C13_FlushPostcondition ==
    \A outcome \in WriteOutcomes :
       LET r == Flush(display, outcome)
       IN  IF display.dirty = {}
           THEN r.result = "False" /\ r.d = display
           ELSE /\ r.result = "True"
                /\ r.d.dirty = {}
                /\ \A a \in MinAddress(display.dirty)..MaxAddress(display.dirty) :
                      /\ r.d.device_regen[a] = r.d.regen_buffer[a]
                      /\ r.d.has_eab => r.d.device_eab[a] = r.d.eab_buffer[a]

\* C14: no write is lost: every address whose regen or EAB byte in the buffer
\* differs from the last value written to the device is in the dirty set, and a
\* device write that succeeds removes from the dirty set exactly the addresses it
\* wrote.
C14_NoWriteLost ==
    /\ Differing(display) \subseteq display.dirty
    /\ \A address \in DisplayAddresses, data \in WriteData(display.has_eab) :
         address + Len(data.regen_data) - 1 <= last_address =>
            LET r == BufferedWrite(display, data.regen_data, data.eab_data, address, "ok")
            IN  r.d.dirty = display.dirty \ (address..(address + Len(data.regen_data) - 1))

\* C15: for a non-empty dirty set flush() issues exactly one write, which starts at
\* the lowest dirty address and covers every address up to the highest dirty
\* address, each byte (dirty or not) being the byte of the buffer; flush changes no
\* byte of the regen or EAB buffer, whether the write succeeds or not.
C15_FlushCoalesces ==
    display.dirty # {} =>
       LET writes == FlushWrites(display)
           lowest == MinAddress(display.dirty)
           highest == MaxAddress(display.dirty)
       IN  /\ Len(writes) = 1
           /\ writes[1].address = lowest
           /\ Len(writes[1].regen_data) = highest - lowest + 1
           /\ \A a \in lowest..highest :
                 writes[1].regen_data[a - lowest + 1] = display.regen_buffer[a]
           /\ IF display.has_eab
              THEN /\ Len(writes[1].eab_data) = highest - lowest + 1
                   /\ \A a \in lowest..highest :
                         writes[1].eab_data[a - lowest + 1] = display.eab_buffer[a]
              ELSE writes[1].eab_data = <<>>
           /\ \A outcome \in WriteOutcomes :
                 LET r == Flush(display, outcome)
                 IN  /\ r.d.regen_buffer = display.regen_buffer
                     /\ r.d.eab_buffer = display.eab_buffer

\* two dirty addresses with an address between them that is not dirty and holds a
\* byte other than zero
C15_Witness ==
    /\ display.dirty = {0, 2}
    /\ display.regen_buffer[1] = 1
    /\ display.regen_buffer[0] # display.device_regen[0]

\* ---------------------------------------------------- _jumbo_write_split_data
\* Length of the data passed to _jumbo_write_split_data.
MaxDataLength == 6

\* Largest max_length.
MaxChunkLength == 3

\* len(data[0]) * data[1], or len(data)
DataLength(data) == Len(data.pattern) * data.count

\* data[0] * data[1] of a tuple, the bytes themselves otherwise
Expanded(data) ==
    [i \in 1..DataLength(data) |-> data.pattern[((i - 1) % Len(data.pattern)) + 1]]

\* the index a slice bound stands for: a negative bound counts from the end, and
\* a bound outside the sequence is clamped
SliceIndex(s, k) ==
    IF k < 0 THEN (IF Len(s) + k < 0 THEN 0 ELSE Len(s) + k)
    ELSE IF k > Len(s) THEN Len(s) ELSE k

\* s[:k]
SliceTo(s, k) == SubSeq(s, 1, SliceIndex(s, k))

\* s[k:]
SliceFrom(s, k) == SubSeq(s, SliceIndex(s, k) + 1, Len(s))

\* chunked(s, n): pieces of n bytes, the last one shorter when bytes are left over
RECURSIVE chunked(_, _)
chunked(s, n) ==
    IF s = <<>> THEN <<>>
    ELSE <<BytesData(SliceTo(s, n))>> \o chunked(SliceFrom(s, n), n)

\* a faulty variant: the first chunk is not adjusted
JumboWriteSplitDataUnadjusted(data, max_length, first_chunk_max_length_adjustment) ==
    IF max_length = NoMaxLength THEN <<data>>
    ELSE IF DataLength(data) <= max_length + first_chunk_max_length_adjustment THEN <<data>>
    ELSE <<BytesData(SliceTo(Expanded(data), max_length))>>
            \o chunked(SliceFrom(Expanded(data), max_length), max_length)

\* _jumbo_write_split_data(data, max_length, first_chunk_max_length_adjustment)
JumboWriteSplitData(data, max_length, first_chunk_max_length_adjustment) ==
    IF max_length = NoMaxLength THEN <<data>>
    ELSE LET length == DataLength(data)
             first_chunk_max_length == max_length + first_chunk_max_length_adjustment
         IN  IF length <= first_chunk_max_length THEN <<data>>
             ELSE <<BytesData(SliceTo(Expanded(data), first_chunk_max_length))>>
                     \o chunked(SliceFrom(Expanded(data), first_chunk_max_length), max_length)

\* the data: bytes, or a pattern with a count
JumboData ==
    {BytesData(b) : b \in UNION {[1..n -> Bytes] : n \in 0..MaxDataLength}}
    \cup {d \in {TupleData(pattern, count) :
                    pattern \in UNION {[1..n -> Bytes] : n \in 1..2},
                    count \in 0..MaxDataLength} : DataLength(d) <= MaxDataLength}

\* the adjustments: -1 and -2 are the ones execute_jumbo_write is called with
Adjustments == (0 - (MaxChunkLength + 1))..1

\* execute_jumbo_write: chunks = _jumbo_write_split_data(data, max_length,
\* first_chunk_max_length_adjustment), for the arguments drawn at the start
DoJumboWriteSplitData ==
    /\ jumbo.chunks = <<>>
    /\ jumbo' = [jumbo EXCEPT !.chunks =
                    JumboWriteSplitData(jumbo.data, jumbo.max_length,
                                        jumbo.first_chunk_max_length_adjustment)]
    /\ UNCHANGED exceptJumbo

\* the arguments of one call: max_length is None without the split strategy
InitJumbo ==
    /\ ControllerInit
    /\ ~protocol_3299
    /\ IdleBut("jumbo")
    /\ \E data \in JumboData, max_length \in {NoMaxLength} \cup (1..MaxChunkLength),
          first_chunk_max_length_adjustment \in Adjustments :
         jumbo = [data |-> data, max_length |-> max_length,
                  first_chunk_max_length_adjustment |-> first_chunk_max_length_adjustment,
                  chunks |-> <<>>]

NextJumbo == DoJumboWriteSplitData

SpecJumbo == InitJumbo /\ [][NextJumbo]_vars

\* the bytes of the chunks from the i-th on, one after the other
RECURSIVE Concatenated(_, _)
Concatenated(chunks, i) ==
    IF i > Len(chunks) THEN <<>> ELSE Expanded(chunks[i]) \o Concatenated(chunks, i + 1)

\* the chunks reproduce the data, and the data is one unchanged chunk when no
\* maximum applies or its length is at most max_length + adjustment
JumboRoundTrip ==
    /\ jumbo.chunks # <<>> => Concatenated(jumbo.chunks, 1) = Expanded(jumbo.data)
    /\ (jumbo.chunks # <<>>
          /\ (jumbo.max_length = NoMaxLength
                \/ DataLength(jumbo.data)
                      <= jumbo.max_length + jumbo.first_chunk_max_length_adjustment))
         => jumbo.chunks = <<jumbo.data>>

\* the data was split
JumboSplit ==
    /\ jumbo.chunks # <<>>
    /\ jumbo.max_length # NoMaxLength
    /\ DataLength(jumbo.data) > jumbo.max_length + jumbo.first_chunk_max_length_adjustment

\* C16 as stated: the chunks reproduce the data; a single unchanged chunk when no
\* maximum applies or L <= M + A; otherwise the first chunk has length M + A and
\* every later chunk has length at most M.
C16_SplitFirstChunkLength ==
    /\ JumboRoundTrip
    /\ JumboSplit =>
         /\ DataLength(jumbo.chunks[1])
               = jumbo.max_length + jumbo.first_chunk_max_length_adjustment
         /\ \A i \in 2..Len(jumbo.chunks) : DataLength(jumbo.chunks[i]) <= jumbo.max_length

\* C16: the chunks reproduce the data; a single unchanged chunk when no maximum
\* applies or L <= M + A; otherwise, when M + A >= 0, the first chunk has length
\* M + A, and when M + A < 0 it holds all but the last -(M + A) bytes (nothing
\* when the data is not longer than that); every later chunk has between 1 and M
\* bytes, and only the last one may have fewer than M.
C16_SplitRoundTrip ==
    /\ JumboRoundTrip
    /\ JumboSplit =>
         LET first_chunk_max_length ==
                 jumbo.max_length + jumbo.first_chunk_max_length_adjustment
             length == DataLength(jumbo.data)
         IN  /\ ~jumbo.chunks[1].tuple
             /\ first_chunk_max_length >= 0
                  => DataLength(jumbo.chunks[1]) = first_chunk_max_length
             /\ first_chunk_max_length < 0
                  => DataLength(jumbo.chunks[1])
                        = (IF length + first_chunk_max_length > 0
                           THEN length + first_chunk_max_length ELSE 0)
             /\ \A i \in 2..Len(jumbo.chunks) :
                   /\ DataLength(jumbo.chunks[i]) >= 1
                   /\ DataLength(jumbo.chunks[i]) <= jumbo.max_length
                   /\ i < Len(jumbo.chunks) => DataLength(jumbo.chunks[i]) = jumbo.max_length

\* a pattern with a count is split at the boundary into a first chunk of M + A
\* bytes, a full chunk and a shorter last one
C16_Witness ==
    /\ JumboSplit
    /\ jumbo.data.tuple
    /\ jumbo.max_length + jumbo.first_chunk_max_length_adjustment = 1
    /\ Len(jumbo.chunks) = 3
    /\ DataLength(jumbo.chunks[3]) < jumbo.max_length

\* ---------------------------------------------------------------- Keyboard
\* The entries of KEYMAP_DEFAULT, KEYMAP_SHIFT, KEYMAP_ALT and MODIFIER_RELEASE_MAP
\* of the 3278 typewriter keymap for the modifier keys, a letter and a digit.
\* modifier_release is a mapping (map) or a scan code (scan_code).
KEYMAP_3278_TYPEWRITER ==
    [name |-> "3278 Typewriter",
     default |-> (33 :> "ONE" @@ 76 :> "CAPS_LOCK" @@ 96 :> "LOWER_A" @@ 77 :> "LEFT_SHIFT"
                  @@ 78 :> "RIGHT_SHIFT" @@ 79 :> "RIGHT_ALT"),
     shift |-> (33 :> "BAR" @@ 76 :> "CAPS_LOCK" @@ 96 :> "UPPER_A" @@ 77 :> "LEFT_SHIFT"
                @@ 78 :> "RIGHT_SHIFT" @@ 79 :> "RIGHT_ALT"),
     alt |-> (33 :> "PF1" @@ 76 :> "CAPS_LOCK" @@ 96 :> "LOWER_A" @@ 77 :> "LEFT_SHIFT"
              @@ 78 :> "RIGHT_SHIFT" @@ 79 :> "RIGHT_ALT"),
     modifier_release |->
         [mapping |-> TRUE,
          map |-> (204 :> "CAPS_LOCK" @@ 205 :> "LEFT_SHIFT" @@ 206 :> "RIGHT_SHIFT"
                   @@ 207 :> "RIGHT_ALT"),
          scan_code |-> NoScanCode]]

\* The same entries of the 3483 keymap, with the INSERT key for the digit.
KEYMAP_3483_102 ==
    [name |-> "3483_102",
     default |-> (20 :> "CAPS_LOCK" @@ 28 :> "LOWER_A" @@ 18 :> "LEFT_SHIFT"
                  @@ 89 :> "RIGHT_SHIFT" @@ 25 :> "LEFT_ALT" @@ 57 :> "RIGHT_ALT"
                  @@ 103 :> "INSERT"),
     shift |-> (20 :> "CAPS_LOCK" @@ 28 :> "UPPER_A" @@ 18 :> "LEFT_SHIFT"
                @@ 89 :> "RIGHT_SHIFT" @@ 25 :> "LEFT_ALT" @@ 57 :> "RIGHT_ALT"
                @@ 103 :> "DUP"),
     alt |-> (20 :> "CAPS_LOCK" @@ 28 :> "LOWER_A" @@ 18 :> "LEFT_SHIFT"
              @@ 89 :> "RIGHT_SHIFT" @@ 25 :> "LEFT_ALT" @@ 57 :> "RIGHT_ALT"
              @@ 103 :> "PA1"),
     modifier_release |->
         [mapping |-> FALSE, map |-> [c \in {} |-> NoKey], scan_code |-> 240]]

Keymaps == {KEYMAP_3278_TYPEWRITER, KEYMAP_3483_102}

\* the keymap of a keyboard
KeymapOf(k) == CHOOSE keymap \in Keymaps : keymap.name = k.keymap

\* map.get(x, otherwise)
Get(map, x, otherwise) == IF x \in DOMAIN map THEN map[x] ELSE otherwise

KEY_UPPER_MAP == ("LOWER_A" :> "UPPER_A")

KEY_LOWER_MAP == ("UPPER_A" :> "LOWER_A")

\* the KeyboardModifiers flag of a modifier key
KEY_MODIFIER_MAP ==
    ("LEFT_SHIFT" :> "LEFT_SHIFT" @@ "RIGHT_SHIFT" :> "RIGHT_SHIFT" @@ "LEFT_ALT" :> "LEFT_ALT"
     @@ "RIGHT_ALT" :> "RIGHT_ALT" @@ "CAPS_LOCK" :> "CAPS_LOCK")

is_shift(modifiers) == modifiers \cap {"LEFT_SHIFT", "RIGHT_SHIFT"} # {}

is_alt(modifiers) == modifiers \cap {"LEFT_ALT", "RIGHT_ALT"} # {}

is_caps_lock(modifiers) == "CAPS_LOCK" \in modifiers

\* a faulty variant: a release clears every shift and alt modifier
ReleaseEveryModifier(modifiers, modifier) == modifiers \cap {"CAPS_LOCK"}

\* self.modifiers &= ~modifier
ReleaseModifier(modifiers, modifier) == modifiers \ {modifier}

\* a faulty variant: caps lock is set, not toggled
SetCapsLock(modifiers) == modifiers \cup {"CAPS_LOCK"}

\* self.modifiers ^= KeyboardModifiers.CAPS_LOCK
ToggleCapsLock(modifiers) ==
    IF "CAPS_LOCK" \in modifiers THEN modifiers \ {"CAPS_LOCK"}
    ELSE modifiers \cup {"CAPS_LOCK"}

\* a faulty variant: the release scan code is not recognised
NeverModifierRelease(k, scan_code) == FALSE

\* self.single_modifier_release and scan_code == self.keymap.modifier_release
IsSingleModifierRelease(k, scan_code) ==
    /\ k.single_modifier_release
    /\ scan_code = KeymapOf(k).modifier_release.scan_code

\* _apply_modifiers(scan_code, key): the keyboard after it and the pair it returns,
\* is_modifier_release being "True", "False" or "None"
ApplyModifiers(k, scan_code, key) ==
    LET keymap == KeymapOf(k)
    IN  IF IsSingleModifierRelease(k, scan_code)
        THEN [keyboard |-> [k EXCEPT !.modifier_release = TRUE],
              is_modifier |-> TRUE, is_modifier_release |-> "None"]
        ELSE IF \/ k.single_modifier_release /\ k.modifier_release
                \/ ~k.single_modifier_release /\ scan_code \in DOMAIN keymap.modifier_release.map
        THEN LET released_key == IF k.single_modifier_release THEN key
                                 ELSE keymap.modifier_release.map[scan_code]
                 modifier == Get(KEY_MODIFIER_MAP, released_key, NoKey)
                 k1 == [k EXCEPT !.modifier_release = FALSE]
             IN  IF modifier = NoKey
                 THEN [keyboard |-> k1, is_modifier |-> FALSE, is_modifier_release |-> "None"]
                 ELSE IF is_caps_lock({modifier})
                 THEN [keyboard |-> k1, is_modifier |-> TRUE, is_modifier_release |-> "True"]
                 ELSE [keyboard |-> [k1 EXCEPT !.modifiers = ReleaseModifier(@, modifier)],
                       is_modifier |-> TRUE, is_modifier_release |-> "True"]
        ELSE IF key \in DOMAIN KEY_MODIFIER_MAP
        THEN LET modifier == KEY_MODIFIER_MAP[key]
             IN  [keyboard |-> [k EXCEPT !.modifiers =
                                   IF is_caps_lock({modifier}) THEN ToggleCapsLock(@)
                                   ELSE @ \cup {modifier}],
                  is_modifier |-> TRUE, is_modifier_release |-> "False"]
        ELSE [keyboard |-> k, is_modifier |-> FALSE, is_modifier_release |-> "None"]

\* a faulty variant: the alt table is looked up before the shift table
LookUpAltFirst(keymap, modifiers, scan_code, key) ==
    IF is_alt(modifiers) THEN Get(keymap.alt, scan_code, NoKey)
    ELSE IF is_shift(modifiers) THEN Get(keymap.shift, scan_code, NoKey)
    ELSE key

\* get_key: the key of the shift table, of the alt table, or the one of the
\* default table
LookUp(keymap, modifiers, scan_code, key) ==
    IF is_shift(modifiers) THEN Get(keymap.shift, scan_code, NoKey)
    ELSE IF is_alt(modifiers) THEN Get(keymap.alt, scan_code, NoKey)
    ELSE key

\* get_key(scan_code): the keyboard after it and the tuple it returns
GetKey(k, scan_code) ==
    LET keymap == KeymapOf(k)
        default_key == Get(keymap.default, scan_code, NoKey)
        original_modifiers == k.modifiers
        applied == ApplyModifiers(k, scan_code, default_key)
        modifiers == applied.keyboard.modifiers
        key == LookUp(keymap, modifiers, scan_code, default_key)
    IN  IF applied.is_modifier
        THEN [keyboard |-> applied.keyboard,
              key |-> IF applied.is_modifier_release # "True" THEN default_key ELSE NoKey,
              modifiers |-> modifiers,
              modifiers_changed |-> modifiers # original_modifiers]
        ELSE IF key = NoKey
        THEN [keyboard |-> applied.keyboard, key |-> NoKey, modifiers |-> modifiers,
              modifiers_changed |-> FALSE]
        ELSE [keyboard |-> applied.keyboard,
              key |-> IF is_caps_lock(modifiers)
                      THEN (IF ~is_shift(modifiers) THEN Get(KEY_UPPER_MAP, key, key)
                            ELSE Get(KEY_LOWER_MAP, key, key))
                      ELSE key,
              modifiers |-> modifiers,
              modifiers_changed |-> FALSE]

\* the scan codes a keyboard sends: those of the keymap, its release scan codes, and
\* one the keymap does not have
ScanCodes(keymap) ==
    DOMAIN keymap.default \cup DOMAIN keymap.modifier_release.map
    \cup (IF keymap.modifier_release.mapping THEN {} ELSE {keymap.modifier_release.scan_code})
    \cup {0}

\* a call of get_key
DoGetKey ==
    /\ \E scan_code \in ScanCodes(KeymapOf(keyboard)) :
         LET r == GetKey(keyboard, scan_code)
         IN  keyboard' = [r.keyboard EXCEPT
                            !.call = [scan_code |-> scan_code,
                                      modifiers |-> keyboard.modifiers,
                                      modifier_release |-> keyboard.modifier_release],
                            !.result = [key |-> r.key, modifiers |-> r.modifiers,
                                        modifiers_changed |-> r.modifiers_changed]]
    /\ UNCHANGED exceptKeyboard

InitKeyboard ==
    /\ ControllerInit
    /\ ~protocol_3299
    /\ IdleBut("keyboard")
    /\ \E keymap \in Keymaps :
         keyboard = InitialKeyboard(keymap.name, ~keymap.modifier_release.mapping)

NextKeyboard == DoGetKey

SpecKeyboard == InitKeyboard /\ [][NextKeyboard]_vars

\* the default table's key of the scan code of the last get_key call
CalledKey == Get(KeymapOf(keyboard).default, keyboard.call.scan_code, NoKey)

\* the last call was get_key with a release scan code of the release map
PerKeyRelease ==
    /\ ~keyboard.single_modifier_release
    /\ keyboard.call.scan_code \in DOMAIN KeymapOf(keyboard).modifier_release.map

\* the last call was get_key with the release scan code of a single-release keymap
SentinelCalled ==
    /\ keyboard.single_modifier_release
    /\ keyboard.call.scan_code = KeymapOf(keyboard).modifier_release.scan_code

\* the last call was get_key with the scan code that followed the release scan code
SingleRelease ==
    /\ keyboard.single_modifier_release
    /\ keyboard.call.scan_code # NoScanCode
    /\ keyboard.call.modifier_release
    /\ ~SentinelCalled

\* the last call was get_key with a scan code that is a press in its keymap
Pressed ==
    /\ keyboard.call.scan_code # NoScanCode
    /\ ~PerKeyRelease
    /\ ~SentinelCalled
    /\ ~SingleRelease

\* C17 as stated: in the per-key-release style each release scan code of the
\* release map clears exactly the bit of its modifier and returns no key with
\* modifiers_changed True.
C17_EveryReleaseClearsAndReports ==
    PerKeyRelease =>
       LET released_key == KeymapOf(keyboard).modifier_release.map[keyboard.call.scan_code]
       IN  /\ keyboard.modifiers = keyboard.call.modifiers \ {KEY_MODIFIER_MAP[released_key]}
           /\ keyboard.result = [key |-> NoKey, modifiers |-> keyboard.modifiers,
                                 modifiers_changed |-> TRUE]

\* C17: in the per-key-release style each release scan code of a shift or alt key
\* clears exactly the bit of its modifier and no other, whatever the order of the
\* presses, and returns no key, with modifiers_changed True exactly when the bit
\* was set; the release scan code of caps lock changes no bit and returns no key
\* with modifiers_changed False.
C17_ReleaseClearsItsModifier ==
    PerKeyRelease =>
       LET released_key == KeymapOf(keyboard).modifier_release.map[keyboard.call.scan_code]
           modifier == KEY_MODIFIER_MAP[released_key]
       IN  /\ keyboard.result.key = NoKey
           /\ keyboard.result.modifiers = keyboard.modifiers
           /\ IF released_key = "CAPS_LOCK"
              THEN /\ keyboard.modifiers = keyboard.call.modifiers
                   /\ ~keyboard.result.modifiers_changed
              ELSE /\ keyboard.modifiers = keyboard.call.modifiers \ {modifier}
                   /\ keyboard.result.modifiers_changed = (modifier \in keyboard.call.modifiers)

\* with both shift keys pressed the left shift key was released: right shift is
\* left
C17_Witness ==
    /\ PerKeyRelease
    /\ KeymapOf(keyboard).modifier_release.map[keyboard.call.scan_code] = "LEFT_SHIFT"
    /\ keyboard.call.modifiers = {"LEFT_SHIFT", "RIGHT_SHIFT"}
    /\ keyboard.modifiers = {"RIGHT_SHIFT"}
    /\ keyboard.result.modifiers_changed

\* C18 as stated: in the single-release style the release scan code returns no
\* key, leaves the modifiers unchanged and sets the release-pending flag; the next
\* scan code, when it maps to a shift or alt key, clears exactly that modifier's
\* bit and returns (None, modifiers, True); the flag is cleared by that one scan
\* code, and a press of the key sets the modifier again.
C18_SingleReleaseReportsChange ==
    /\ SentinelCalled =>
         /\ keyboard.result.key = NoKey
         /\ keyboard.modifiers = keyboard.call.modifiers
         /\ keyboard.modifier_release
    /\ SingleRelease => ~keyboard.modifier_release
    /\ (SingleRelease /\ CalledKey \in DOMAIN KEY_MODIFIER_MAP /\ CalledKey # "CAPS_LOCK") =>
         /\ keyboard.modifiers = keyboard.call.modifiers \ {KEY_MODIFIER_MAP[CalledKey]}
         /\ keyboard.result = [key |-> NoKey, modifiers |-> keyboard.modifiers,
                               modifiers_changed |-> TRUE]
    /\ (keyboard.single_modifier_release /\ Pressed
          /\ CalledKey \in DOMAIN KEY_MODIFIER_MAP /\ CalledKey # "CAPS_LOCK") =>
         /\ keyboard.modifiers = keyboard.call.modifiers \cup {KEY_MODIFIER_MAP[CalledKey]}
         /\ keyboard.result.key = CalledKey

\* C18: in the single-release style the release scan code returns no key, leaves
\* the modifiers unchanged, reports modifiers_changed False and sets the
\* release-pending flag; the next scan code other than the release scan code
\* clears the flag, and when it maps to a shift or alt key it clears exactly that
\* modifier's bit and returns (None, modifiers, changed), changed being True exactly
\* when the bit was set; a press of the key after that sets the modifier again.
C18_SingleReleaseOneShot ==
    /\ SentinelCalled =>
         /\ keyboard.result = [key |-> NoKey, modifiers |-> keyboard.call.modifiers,
                               modifiers_changed |-> FALSE]
         /\ keyboard.modifiers = keyboard.call.modifiers
         /\ keyboard.modifier_release
    /\ SingleRelease => ~keyboard.modifier_release
    /\ (SingleRelease /\ CalledKey \in DOMAIN KEY_MODIFIER_MAP /\ CalledKey # "CAPS_LOCK") =>
         /\ keyboard.modifiers = keyboard.call.modifiers \ {KEY_MODIFIER_MAP[CalledKey]}
         /\ keyboard.result =
               [key |-> NoKey, modifiers |-> keyboard.modifiers,
                modifiers_changed |-> (KEY_MODIFIER_MAP[CalledKey] \in keyboard.call.modifiers)]
    /\ (keyboard.single_modifier_release /\ Pressed
          /\ CalledKey \in DOMAIN KEY_MODIFIER_MAP /\ CalledKey # "CAPS_LOCK") =>
         /\ ~keyboard.modifier_release
         /\ keyboard.modifiers = keyboard.call.modifiers \cup {KEY_MODIFIER_MAP[CalledKey]}
         /\ keyboard.result.key = CalledKey

\* the left shift key, pressed before, was released after the release scan code
C18_Witness ==
    /\ SingleRelease
    /\ CalledKey = "LEFT_SHIFT"
    /\ "LEFT_SHIFT" \in keyboard.call.modifiers
    /\ "LEFT_SHIFT" \notin keyboard.modifiers
    /\ keyboard.result.modifiers_changed
    /\ ~keyboard.modifier_release

\* the last call was a press of the caps lock key
CapsLockPressed == Pressed /\ CalledKey = "CAPS_LOCK"

\* the last call was a release of the caps lock key
CapsLockReleased ==
    \/ /\ PerKeyRelease
       /\ KeymapOf(keyboard).modifier_release.map[keyboard.call.scan_code] = "CAPS_LOCK"
    \/ /\ SingleRelease
       /\ CalledKey = "CAPS_LOCK"

\* C19: in both keymap styles a press of the caps lock key flips the CAPS_LOCK bit
\* and no other and returns (CAPS_LOCK, modifiers, True); a release of the caps lock
\* key returns no key, leaves the modifiers unchanged and reports modifiers_changed
\* False.
C19_CapsLockToggles ==
    /\ CapsLockPressed =>
         /\ ("CAPS_LOCK" \in keyboard.modifiers) = ("CAPS_LOCK" \notin keyboard.call.modifiers)
         /\ keyboard.modifiers \ {"CAPS_LOCK"} = keyboard.call.modifiers \ {"CAPS_LOCK"}
         /\ keyboard.result = [key |-> "CAPS_LOCK", modifiers |-> keyboard.modifiers,
                               modifiers_changed |-> TRUE]
    /\ CapsLockReleased =>
         /\ keyboard.modifiers = keyboard.call.modifiers
         /\ keyboard.result = [key |-> NoKey, modifiers |-> keyboard.call.modifiers,
                               modifiers_changed |-> FALSE]

\* caps lock was on and a press of the caps lock key, with a shift key held, turned
\* it off
C19_Witness ==
    /\ CapsLockPressed
    /\ "CAPS_LOCK" \in keyboard.call.modifiers
    /\ is_shift(keyboard.call.modifiers)
    /\ "CAPS_LOCK" \notin keyboard.modifiers

\* C20: for a scan code that is neither a modifier key nor a release scan code the
\* key comes from the shift table when a shift bit is set, else from the alt table
\* when an alt bit is set, else from the default table; with caps lock on a letter
\* is upper-cased without shift and lower-cased with shift; a scan code the table
\* does not have returns (None, modifiers, False); the modifiers are unchanged and
\* modifiers_changed is False.
C20_KeyResolution ==
    ((Pressed \/ SingleRelease) /\ CalledKey \notin DOMAIN KEY_MODIFIER_MAP) =>
       LET keymap == KeymapOf(keyboard)
           modifiers == keyboard.call.modifiers
           scan_code == keyboard.call.scan_code
           shift == "LEFT_SHIFT" \in modifiers \/ "RIGHT_SHIFT" \in modifiers
           alt == "LEFT_ALT" \in modifiers \/ "RIGHT_ALT" \in modifiers
           table == IF shift THEN keymap.shift ELSE IF alt THEN keymap.alt ELSE keymap.default
           key == IF scan_code \in DOMAIN table THEN table[scan_code] ELSE NoKey
           cased == IF "CAPS_LOCK" \notin modifiers THEN key
                    ELSE IF ~shift /\ key = "LOWER_A" THEN "UPPER_A"
                    ELSE IF shift /\ key = "UPPER_A" THEN "LOWER_A"
                    ELSE key
       IN  /\ keyboard.modifiers = modifiers
           /\ keyboard.result = [key |-> cased, modifiers |-> modifiers,
                                 modifiers_changed |-> FALSE]

\* with a shift key and an alt key held and caps lock on, the letter comes from the
\* shift table and is lower-cased
C20_Witness ==
    /\ Pressed
    /\ CalledKey = "LOWER_A"
    /\ is_shift(keyboard.call.modifiers)
    /\ is_alt(keyboard.call.modifiers)
    /\ is_caps_lock(keyboard.call.modifiers)
    /\ keyboard.result.key = "LOWER_A"

(***************************************************************************)
(* Terminal: the control register, the queued alarm and the keyboard       *)
(* clicker (terminal.py, display.py toggle_cursor_*, controller.py         *)
(* _handle_keystroke_poll_response).                                       *)
(***************************************************************************)

\* outcome of a command executed for the terminal: the device executed it and
\* answered, or execute raised and the device did not execute it
ExecuteOutcomes == {"ok", "raised"}

\* keys _handle_keystroke_poll_response tells apart; OTHER is any other key, on a
\* terminal without an ACTIVE session
Keys == {"CURSOR_BLINK", "ALT_CURSOR", "CLICKER", "OTHER"}

\* the call record of a call that begins on terminal t
BeginCall(t, name, key) ==
    [t EXCEPT !.call = [name |-> name, key |-> key, control |-> t.control,
                        alarm |-> t.alarm,
                        last_poll_keyboard_clicker |-> t.last_poll_keyboard_clicker,
                        loads |-> <<>>, poll_action |-> "NONE", raised |-> FALSE]]

\* Terminal.load_control_register: one LOAD_CONTROL_REGISTER carrying self.control
LoadControlRegister(t, outcome) ==
    LET issued == [t EXCEPT !.call.loads = Append(@, t.control)]
    IN IF outcome = "ok"
       THEN [issued EXCEPT !.device_control = t.control]
       ELSE [issued EXCEPT !.call.raised = TRUE]

\* cursor_blink = True in place of not cursor_blink
SetCursorBlink(control) == [control EXCEPT !.cursor_blink = TRUE]

\* the assignment of toggle_cursor_blink
ToggleCursorBlink(control) == [control EXCEPT !.cursor_blink = ~@]

\* the assignment of toggle_cursor_reverse
ToggleCursorReverse(control) == [control EXCEPT !.cursor_reverse = ~@]

\* _handle_keystroke_poll_response from "if not key" on, for a key that did not
\* change the modifiers
HandleKeystrokePollResponse(t, key, outcome) ==
    LET begun == BeginCall(t, "keystroke", key)
    IN CASE key = "CURSOR_BLINK" ->
              LoadControlRegister([begun EXCEPT !.control = ToggleCursorBlink(@)], outcome)
         [] key = "ALT_CURSOR" ->
              LoadControlRegister([begun EXCEPT !.control = ToggleCursorReverse(@)], outcome)
         [] key = "CLICKER" -> [begun EXCEPT !.clicker = ~@]
         [] OTHER -> begun

\* the value of keyboard.clicker as last_poll_keyboard_clicker holds it
ClickerValue(clicker) == IF clicker THEN "True" ELSE "False"

\* the clicker change is looked at before the alarm
PollActionClickerFirst(t) ==
    IF ClickerValue(t.clicker) # t.last_poll_keyboard_clicker
    THEN IF t.clicker THEN "ENABLE_KEYBOARD_CLICKER" ELSE "DISABLE_KEYBOARD_CLICKER"
    ELSE IF t.alarm THEN "ALARM" ELSE "NONE"

\* the poll_action Terminal.poll selects
SelectPollAction(t) ==
    IF t.alarm
    THEN "ALARM"
    ELSE IF ClickerValue(t.clicker) # t.last_poll_keyboard_clicker
         THEN IF t.clicker THEN "ENABLE_KEYBOARD_CLICKER" ELSE "DISABLE_KEYBOARD_CLICKER"
         ELSE "NONE"

\* Terminal.poll
TerminalPoll(t, outcome) ==
    LET poll_action == SelectPollAction(t)
        begun == [BeginCall(t, "poll", "None") EXCEPT !.call.poll_action = poll_action]
    IN IF outcome = "raised"
       THEN [begun EXCEPT !.call.raised = TRUE]
       ELSE IF poll_action = "ALARM"
            THEN [begun EXCEPT !.alarm = FALSE]
            ELSE IF poll_action \in {"ENABLE_KEYBOARD_CLICKER", "DISABLE_KEYBOARD_CLICKER"}
                 THEN [begun EXCEPT !.last_poll_keyboard_clicker = ClickerValue(t.clicker)]
                 ELSE begun

\* Terminal.sound_alarm
SoundAlarm(t) == [BeginCall(t, "sound_alarm", "None") EXCEPT !.alarm = TRUE]

DoKeystroke ==
    /\ \E key \in Keys, outcome \in ExecuteOutcomes :
          terminal' = HandleKeystrokePollResponse(terminal, key, outcome)
    /\ UNCHANGED exceptTerminal

DoSoundAlarm ==
    /\ terminal' = SoundAlarm(terminal)
    /\ UNCHANGED exceptTerminal

DoTerminalPoll ==
    /\ \E outcome \in ExecuteOutcomes : terminal' = TerminalPoll(terminal, outcome)
    /\ UNCHANGED exceptTerminal

InitTerminal ==
    /\ ControllerInit
    /\ ~protocol_3299
    /\ IdleBut("terminal")
    /\ terminal = InitialTerminal

NextTerminal == DoKeystroke \/ DoSoundAlarm \/ DoTerminalPoll

SpecTerminal == InitTerminal /\ [][NextTerminal]_vars

\* the last call handled a keystroke decoded as key
Keystroke(key) == terminal.call.name = "keystroke" /\ terminal.call.key = key

\* C21: a keystroke decoded as CURSOR_BLINK leaves control as it found it but for
\* cursor_blink, which is flipped, and issues exactly one LOAD_CONTROL_REGISTER
\* carrying the new control; ALT_CURSOR does the same to cursor_reverse; a second
\* flip of either bit gives back the control before the first.
C21_ToggleFlipsAndLoads ==
    /\ Keystroke("CURSOR_BLINK") =>
          /\ terminal.control =
                [terminal.call.control EXCEPT !.cursor_blink = ~terminal.call.control.cursor_blink]
          /\ terminal.call.loads = <<terminal.control>>
    /\ Keystroke("ALT_CURSOR") =>
          /\ terminal.control =
                [terminal.call.control EXCEPT !.cursor_reverse = ~terminal.call.control.cursor_reverse]
          /\ terminal.call.loads = <<terminal.control>>
    /\ \A outcome \in ExecuteOutcomes, again \in ExecuteOutcomes :
          /\ HandleKeystrokePollResponse(
                 HandleKeystrokePollResponse(terminal, "CURSOR_BLINK", outcome),
                 "CURSOR_BLINK", again).control = terminal.control
          /\ HandleKeystrokePollResponse(
                 HandleKeystrokePollResponse(terminal, "ALT_CURSOR", outcome),
                 "ALT_CURSOR", again).control = terminal.control

\* a CURSOR_BLINK keystroke has switched the blinking off again, cursor_reverse set
C21_Witness ==
    /\ Keystroke("CURSOR_BLINK")
    /\ terminal.call.control.cursor_blink
    /\ ~terminal.control.cursor_blink
    /\ terminal.control.cursor_reverse

\* C22: the control of the terminal is the control the last LOAD_CONTROL_REGISTER
\* executed by the device carried, after every call, a toggle whose
\* LOAD_CONTROL_REGISTER raised included.
C22_ControlMatchesDevice == terminal.control = terminal.device_control

\* C23: the POLL of Terminal.poll carries ALARM if an alarm is queued, otherwise
\* ENABLE_ or DISABLE_KEYBOARD_CLICKER if the clicker is not the one last
\* acknowledged (none before the first), otherwise NONE; the alarm is cleared and
\* the acknowledged clicker updated only by a POLL that did not raise, a POLL that
\* raised leaves both; a successful ALARM leaves the acknowledged clicker, so the
\* pending clicker change is what the next poll selects.
C23_PollAction ==
    terminal.call.name = "poll" =>
       LET call == terminal.call
           differs == ClickerValue(terminal.clicker) # call.last_poll_keyboard_clicker
           clicker_action == IF terminal.clicker THEN "ENABLE_KEYBOARD_CLICKER"
                             ELSE "DISABLE_KEYBOARD_CLICKER"
       IN /\ call.alarm => call.poll_action = "ALARM"
          /\ ~call.alarm /\ differs => call.poll_action = clicker_action
          /\ ~call.alarm /\ ~differs => call.poll_action = "NONE"
          /\ call.raised =>
                /\ terminal.alarm = call.alarm
                /\ terminal.last_poll_keyboard_clicker = call.last_poll_keyboard_clicker
          /\ ~call.raised /\ call.poll_action = "ALARM" =>
                /\ ~terminal.alarm
                /\ terminal.last_poll_keyboard_clicker = call.last_poll_keyboard_clicker
                /\ differs => SelectPollAction(terminal) = clicker_action
          /\ ~call.raised /\ call.poll_action = clicker_action =>
                /\ terminal.alarm = call.alarm
                /\ terminal.last_poll_keyboard_clicker = ClickerValue(terminal.clicker)
          /\ ~call.raised /\ call.poll_action = "NONE" =>
                /\ terminal.alarm = call.alarm
                /\ terminal.last_poll_keyboard_clicker = call.last_poll_keyboard_clicker

\* a POLL with ALARM succeeded while a change of an acknowledged clicker was pending
C23_Witness ==
    /\ terminal.call.name = "poll"
    /\ terminal.call.poll_action = "ALARM"
    /\ ~terminal.call.raised
    /\ terminal.last_poll_keyboard_clicker = "True"
    /\ ~terminal.clicker

(***************************************************************************)
(* Display: the address counter (display.py).  address_counter is what the *)
(* display believes the address counter of the device to be, or None;      *)
(* device_counter is the address counter of the device.                    *)
(***************************************************************************)

CounterRows == 1

\* the number of calls made on one display
MaxCalls == 3

\* the narrowest display of CounterRows rows on which an address needs both bytes
\* of the address counter
CounterColumns == 129

CounterDimensions == [rows |-> CounterRows, columns |-> CounterColumns]

\* the commands of a call are numbered as they are issued; at most one of them
\* fails: its number, up to the number of commands of the longest call, or 0
MaxCommands == 7

FailAt(commands) == 0..(IF commands < MaxCommands THEN commands ELSE MaxCommands)

\* Display.__init__: last_address
CounterLast(c) == ((c.dimensions.rows + 1) * c.dimensions.columns) - 1

\* a call begins
CounterCall(c, name) ==
    [c EXCEPT !.calls = @ + 1,
              !.call = [name |-> name, raised |-> "none", commands |-> 0,
                        address_counter |-> c.address_counter,
                        device_counter |-> c.device_counter,
                        committed |-> FALSE, swallowed |-> FALSE]]

Raised(c) == c.call.raised # "none"

Raise(c, error) == [c EXCEPT !.call.raised = error]

\* n more commands are given to terminal.execute
Issue(c, n) == [c EXCEPT !.call.commands = @ + n]

\* the k-th of the commands issued next is the one that fails
Fails(c, fail, k) == c.call.commands + k = fail

\* _split_address and its inverse; (None, None) is (NoCounter, NoCounter)
SplitHi(address) == IF address = NoCounter THEN NoCounter ELSE (address \div 256) % 256

SplitLo(address) == IF address = NoCounter THEN NoCounter ELSE address % 256

JoinAddress(hi, lo) == (hi * 256) + lo

\* _calculate_address raises ValueError('Address is out of range')
OutOfRange(c, address) == address # NoCounter /\ address > CounterLast(c)

\* a faulty variant: the address after a write up to the last address is kept
AddressAfterWriteKeptAtEnd(c, address, count) ==
    IF address = NoCounter THEN NoCounter
    ELSE IF address + count > CounterLast(c) + 1 THEN NoCounter
    ELSE address + count

\* _calculate_address_after_write
CalculateAddressAfterWrite(c, address, count) ==
    IF address = NoCounter THEN NoCounter
    ELSE IF address + count > CounterLast(c) THEN NoCounter
    ELSE address + count

\* _read_address_counter: [ReadAddressCounterHi(), ReadAddressCounterLo()] in one
\* execute, which raises if either failed
ReadAddressCounter(c, fail) ==
    IF Fails(c, fail, 1) \/ Fails(c, fail, 2)
    THEN Raise(Issue(c, 2), "execute")
    ELSE [Issue(c, 2) EXCEPT !.address_counter = c.device_counter]

\* self.address_counter if self.address_counter is not None else
\* self._read_address_counter(); the value is the address_counter of the result
CurrentAddress(c, fail) ==
    IF c.address_counter # NoCounter THEN c ELSE ReadAddressCounter(c, fail)

\* _load_address_counter: the commands of the list are all executed, those that
\* did not fail take effect in the device, and execute raises if one failed
LoadAddressCounter(c, address, force_load, fail) ==
    IF address = c.address_counter /\ ~force_load THEN c
    ELSE LET hi == SplitHi(address)
             lo == SplitLo(address)
             load_hi == hi # SplitHi(c.address_counter) \/ force_load
             load_lo == lo # SplitLo(c.address_counter) \/ force_load
             hi_failed == load_hi /\ Fails(c, fail, 1)
             lo_failed == load_lo /\ Fails(c, fail, IF load_hi THEN 2 ELSE 1)
             device_hi == IF load_hi /\ ~hi_failed THEN hi ELSE SplitHi(c.device_counter)
             device_lo == IF load_lo /\ ~lo_failed THEN lo ELSE SplitLo(c.device_counter)
             issued == [Issue(c, (IF load_hi THEN 1 ELSE 0) + (IF load_lo THEN 1 ELSE 0))
                           EXCEPT !.device_counter = JoinAddress(device_hi, device_lo)]
         IN IF hi_failed \/ lo_failed
            THEN Raise(issued, "execute")
            ELSE [issued EXCEPT !.address_counter = address]

\* _write_data / _eab_write_alternate: data shorter than jumbo_write_max_length is
\* one command; the device advances its address counter past the bytes written
\* and wraps at the end of its buffer, taken to end at last_address
ExecuteWrite(c, count, fail) ==
    IF Fails(c, fail, 1)
    THEN Raise(Issue(c, 1), "execute")
    ELSE [Issue(c, 1) EXCEPT !.device_counter = (@ + count) % (CounterLast(c) + 1)]

\* data as the address counter sees it: bytes of a length, or a tuple of a
\* pattern of a length and a count; no data has form "None"
BytesOf(length) == [form |-> "bytes", length |-> length, count |-> 1]

TupleOf(length, count) == [form |-> "tuple", length |-> length, count |-> count]

NoData == [form |-> "None", length |-> 0, count |-> 0]

\* the count of Display.write
DataCount(data) == IF data.form = "tuple" THEN data.length * data.count ELSE data.length

\* the checks of Display.write on eab_data
EabError(c, regen_data, eab_data) ==
    /\ eab_data.form # "None"
    /\ \/ ~c.has_eab
       \/ /\ regen_data.form = "tuple"
          /\ eab_data.form = "tuple"
          /\ regen_data.length # eab_data.length \/ regen_data.count # eab_data.count
       \/ /\ regen_data.form = "bytes"
          /\ eab_data.form = "bytes"
          /\ regen_data.length # eab_data.length
       \/ regen_data.form # eab_data.form

\* Display.write
CounterWrite(c, regen_data, eab_data, address, restore_original_address, fail) ==
    IF EabError(c, regen_data, eab_data) THEN Raise(c, "precondition")
    ELSE
    LET saved == IF restore_original_address THEN CurrentAddress(c, fail) ELSE c
        original_address == saved.address_counter
    IN
    IF Raised(saved) THEN saved
    ELSE IF OutOfRange(saved, address) THEN Raise(saved, "precondition")
    ELSE
    LET loaded == IF address # NoCounter
                  THEN LoadAddressCounter(saved, address, FALSE, fail)
                  ELSE saved
    IN
    IF Raised(loaded) THEN loaded
    ELSE
    LET written == ExecuteWrite(loaded, DataCount(regen_data), fail)
    IN
    IF Raised(written) THEN written
    ELSE
    LET advanced == [written EXCEPT !.address_counter =
                        CalculateAddressAfterWrite(written, @, DataCount(regen_data))]
    IN
    IF restore_original_address
    THEN LoadAddressCounter(advanced, original_address, TRUE, fail)
    ELSE advanced

\* BufferedDisplay.write
CounterBufferedWrite(c, regen_data, eab_data, address, restore_original_address, fail) ==
    IF OutOfRange(c, address) THEN Raise(c, "precondition")
    ELSE
    LET started == IF address = NoCounter THEN CurrentAddress(c, fail) ELSE c
    IN
    IF Raised(started) THEN started
    ELSE
    LET written == CounterWrite(started, regen_data, eab_data, address,
                                restore_original_address, fail)
    IN
    IF Raised(written) THEN written ELSE [written EXCEPT !.call.committed = TRUE]

\* the address is not restored
StatusLineWriteUnrestored(c, column, length, fail) ==
    IF column >= c.dimensions.columns \/ column + length > c.dimensions.columns
    THEN Raise(c, "precondition")
    ELSE CounterBufferedWrite(c, BytesOf(length), NoData, column, FALSE, fail)

\* StatusLine.write(column, data) with len(data) = length
CounterStatusLineWrite(c, column, length, fail) ==
    IF column >= c.dimensions.columns \/ column + length > c.dimensions.columns
    THEN Raise(c, "precondition")
    ELSE CounterBufferedWrite(c, BytesOf(length), NoData, column, TRUE, fail)

\* move_cursor(address=address, force_load=force_load)
MoveCursor(c, address, force_load, fail) ==
    IF OutOfRange(c, address) \/ address = NoCounter
    THEN Raise(c, "precondition")
    ELSE LoadAddressCounter(c, address, force_load, fail)

\* the name under which a call of clear is recorded
ClearName(clear_status_line) == IF clear_status_line THEN "clear_status_line" ELSE "clear"

\* clear(clear_status_line) of a BufferedDisplay
CounterClear(c, clear_status_line, fail) ==
    LET address == IF clear_status_line THEN 0 ELSE c.dimensions.columns
        count == IF clear_status_line
                 THEN (c.dimensions.rows + 1) * c.dimensions.columns
                 ELSE c.dimensions.rows * c.dimensions.columns
        written == CounterBufferedWrite(c, TupleOf(1, count),
                                        IF c.has_eab THEN TupleOf(1, count) ELSE NoData,
                                        address, FALSE, fail)
    IN IF Raised(written) THEN written
       ELSE MoveCursor(written, c.dimensions.columns, TRUE, fail)

\* _write_range for the i-th and later ranges of flush: the exception of a write
\* is logged and the next range is written
RECURSIVE WriteRangesCounter(_, _, _, _)
WriteRangesCounter(c, ranges, i, fail) ==
    IF i > Len(ranges) THEN c
    ELSE LET length == (ranges[i][2] - ranges[i][1]) + 1
             written == CounterBufferedWrite(c, BytesOf(length),
                                             IF c.has_eab THEN BytesOf(length) ELSE NoData,
                                             ranges[i][1], FALSE, fail)
             swallowed == IF Raised(written)
                          THEN [written EXCEPT !.call.raised = "none",
                                               !.call.swallowed = TRUE]
                          ELSE written
         IN WriteRangesCounter(swallowed, ranges, i + 1, fail)

\* flush() with _get_dirty_ranges() = ranges
CounterFlush(c, ranges, fail) == WriteRangesCounter(c, ranges, 1, fail)

\* buffered_write_byte as the address counter sees it: its checks
CounterBufferedWriteByte(c, eab_byte_given, address) ==
    IF eab_byte_given /\ ~c.has_eab THEN Raise(c, "precondition")
    ELSE IF OutOfRange(c, address) \/ address = NoCounter THEN Raise(c, "precondition")
    ELSE c

\* addresses given to the calls: None, the status line, the first body address,
\* both sides of the first address with a high byte, the last address, one beyond
SampleAddresses ==
    {NoCounter, 0, CounterColumns, 255, 256,
     ((CounterRows + 1) * CounterColumns) - 1, (CounterRows + 1) * CounterColumns}

\* regen and EAB data given to write, a row or the whole display so that writes
\* that follow one another come back to the same addresses: without EAB data,
\* matching, and differing in length, count and form
SampleData ==
    {<<BytesOf(CounterColumns), NoData>>,
     <<TupleOf(CounterColumns, CounterRows + 1), NoData>>,
     <<BytesOf(CounterColumns), BytesOf(CounterColumns)>>,
     <<BytesOf(CounterColumns), BytesOf(1)>>,
     <<TupleOf(CounterColumns, CounterRows + 1), TupleOf(CounterColumns, 1)>>,
     <<BytesOf(CounterColumns), TupleOf(CounterColumns, 1)>>}

\* what _get_dirty_ranges gives to flush: nothing, or the one range from the
\* lowest to the highest dirty address
SampleRanges ==
    {<< >>, << <<0, 0>> >>, << <<CounterColumns, CounterColumns + 1>> >>,
     << <<255, 256>> >>, << <<256, 257>> >>,
     << <<0, ((CounterRows + 1) * CounterColumns) - 1>> >>}

DoCounterWrite ==
    /\ counter.calls < MaxCalls
    /\ \E data \in SampleData, address \in SampleAddresses, fail \in FailAt(3) :
          counter' = CounterBufferedWrite(CounterCall(counter, "write"), data[1], data[2],
                                          address, FALSE, fail)
    /\ UNCHANGED exceptCounter

DoCounterStatusLineWrite ==
    /\ counter.calls < MaxCalls
    /\ \E column \in {0, CounterColumns - 1, CounterColumns}, length \in 1..2,
          fail \in FailAt(7) :
          counter' = CounterStatusLineWrite(CounterCall(counter, "status_line_write"),
                                            column, length, fail)
    /\ UNCHANGED exceptCounter

DoMoveCursor ==
    /\ counter.calls < MaxCalls
    /\ \E address \in SampleAddresses, force_load \in BOOLEAN, fail \in FailAt(2) :
          counter' = MoveCursor(CounterCall(counter, "move_cursor"), address, force_load,
                                fail)
    /\ UNCHANGED exceptCounter

DoCounterClear ==
    /\ counter.calls < MaxCalls
    /\ \E clear_status_line \in BOOLEAN, fail \in FailAt(5) :
          counter' = CounterClear(CounterCall(counter, ClearName(clear_status_line)),
                                  clear_status_line, fail)
    /\ UNCHANGED exceptCounter

DoCounterFlush ==
    /\ counter.calls < MaxCalls
    /\ \E ranges \in SampleRanges, fail \in FailAt(3) :
          counter' = CounterFlush(CounterCall(counter, "flush"), ranges, fail)
    /\ UNCHANGED exceptCounter

DoCounterBufferedWriteByte ==
    /\ counter.calls < MaxCalls
    /\ \E eab_byte_given \in BOOLEAN, address \in SampleAddresses :
          counter' = CounterBufferedWriteByte(CounterCall(counter, "buffered_write_byte"),
                                              eab_byte_given, address)
    /\ UNCHANGED exceptCounter

InitCounter ==
    /\ ControllerInit
    /\ ~protocol_3299
    /\ IdleBut("counter")
    /\ \E has_eab \in BOOLEAN, device_counter \in {0, CounterColumns, 256} :
          counter = InitialCounter(CounterDimensions, has_eab, device_counter)

NextCounter ==
    \/ DoCounterWrite
    \/ DoCounterStatusLineWrite
    \/ DoMoveCursor
    \/ DoCounterClear
    \/ DoCounterFlush
    \/ DoCounterBufferedWriteByte

SpecCounter == InitCounter /\ [][NextCounter]_vars

\* C24: the address_counter of the display is None or the address counter of the
\* device, whatever calls of write, the status line's write, move_cursor, clear
\* and flush came before.
C24_ShadowMatchesDevice ==
    counter.address_counter = NoCounter \/ counter.address_counter = counter.device_counter

\* the address current when the last call began: its address_counter, or the
\* address counter of the device where that was None
AddressBefore ==
    IF counter.call.address_counter # NoCounter
    THEN counter.call.address_counter
    ELSE counter.call.device_counter

\* C25: a write of the status line that returns has read the address counter of
\* the device if address_counter was None, and leaves address_counter, and the
\* address counter of the device, at the address current before it.
C25_StatusLineRestores ==
    counter.call.name = "status_line_write" /\ counter.call.raised = "none" =>
       /\ counter.call.commands > 0
       /\ counter.address_counter = AddressBefore
       /\ counter.device_counter = AddressBefore

\* the status line was written while address_counter was None and the device at
\* address 256: the address was read and restored
C25_Witness ==
    /\ counter.call.name = "status_line_write"
    /\ counter.call.raised = "none"
    /\ counter.call.address_counter = NoCounter
    /\ counter.address_counter = 256

\* C27: a call that raised for a violated precondition issued no device command
\* before, committed nothing to the buffers and left address_counter as it was.
C27_PreconditionRaisesFirst ==
    counter.call.raised = "precondition" =>
       /\ counter.call.commands = 0
       /\ ~counter.call.committed
       /\ counter.address_counter = counter.call.address_counter

(***************************************************************************)
(* clear(clear_status_line) of a BufferedDisplay, its buffers and its      *)
(* address counter together, from the states buffered_write_byte and flush *)
(* leave (display.py clear, BufferedDisplay.write, _commit).               *)
(***************************************************************************)

\* the addresses where a buffer of the display holds a byte other than zero
NonZero(regen_buffer, eab_buffer) ==
    {a \in DisplayAddresses : regen_buffer[a] # 0 \/ eab_buffer[a] # 0}

\* a display after calls of buffered_write_byte on a cleared device (every
\* changed address is dirty, and so may others be), or after a flush of such a
\* display (the device holds the buffers and no address is dirty)
PriorDisplay(has_eab, regen_buffer, eab_buffer, dirty, flushed) ==
    [has_eab |-> has_eab,
     regen_buffer |-> regen_buffer,
     eab_buffer |-> eab_buffer,
     dirty |-> IF flushed THEN {} ELSE dirty \cup NonZero(regen_buffer, eab_buffer),
     device_regen |-> IF flushed THEN regen_buffer ELSE [a \in DisplayAddresses |-> 0],
     device_eab |-> IF flushed THEN eab_buffer ELSE [a \in DisplayAddresses |-> 0],
     written |-> flushed]

\* the address counter of such a display: None, or an address the device is at
PriorCounter(has_eab, address_counter, device_counter) ==
    [InitialCounter(dimensions, has_eab, device_counter)
        EXCEPT !.address_counter = address_counter,
               !.call.address_counter = address_counter]

\* clear(clear_status_line): the data reaches the device and the buffers if the
\* write was executed, which is when the call committed
DoClearDisplay ==
    /\ counter.calls = 0
    /\ \E clear_status_line \in BOOLEAN, fail \in FailAt(5) :
          LET cleared == CounterClear(CounterCall(counter, ClearName(clear_status_line)),
                                      clear_status_line, fail)
          IN /\ counter' = cleared
             /\ display' = Clear(display, clear_status_line,
                                 IF cleared.call.committed THEN "ok" ELSE "failed").d
    /\ UNCHANGED exceptClear

InitClear ==
    /\ ControllerInit
    /\ ~protocol_3299
    /\ delay = IdleDelay
    /\ jumbo = IdleJumbo
    /\ keyboard = IdleKeyboard
    /\ terminal = IdleTerminal
    /\ reaping = IdleReaping
    /\ polling = IdlePolling
    /\ host = IdleHost
    /\ dispatch = IdleDispatch
    /\ servicing = IdleServicing
    /\ binding = IdleBinding
    /\ detached = IdleDetached
    /\ \E has_eab \in BOOLEAN, regen_buffer \in [DisplayAddresses -> Bytes],
          eab_buffer \in [DisplayAddresses -> Bytes], dirty \in SUBSET DisplayAddresses,
          flushed \in BOOLEAN :
          /\ has_eab \/ eab_buffer = [a \in DisplayAddresses |-> 0]
          /\ display = PriorDisplay(has_eab, regen_buffer, eab_buffer, dirty, flushed)
          /\ \E address_counter \in {NoCounter} \cup DisplayAddresses,
                device_counter \in DisplayAddresses :
                /\ address_counter \in {NoCounter, device_counter}
                /\ counter = PriorCounter(has_eab, address_counter, device_counter)

NextClear == DoClearDisplay

SpecClear == InitClear /\ [][NextClear]_vars

\* clear returned; the addresses it cleared
ClearReturned ==
    /\ counter.call.name \in {ClearName(TRUE), ClearName(FALSE)}
    /\ counter.call.raised = "none"

ClearedAddresses ==
    (IF counter.call.name = ClearName(TRUE) THEN 0 ELSE dimensions.columns)..last_address

\* what clear leaves at the cleared addresses and in the address counter
ClearedZero ==
    /\ \A a \in ClearedAddresses :
          /\ display.device_regen[a] = 0
          /\ display.regen_buffer[a] = 0
          /\ display.has_eab => display.device_eab[a] = 0 /\ display.eab_buffer[a] = 0
    /\ counter.call.committed
    /\ counter.address_counter = dimensions.columns
    /\ counter.device_counter = dimensions.columns

\* C26 as stated: after clear(clear_status_line), whatever the buffers and the
\* dirty set were, the device and the buffers hold zeros from the first body
\* address (from address 0 with clear_status_line) to the last address, the dirty
\* set is empty, and address_counter is the first body address, force-loaded.
C26_ClearEmptiesDirty ==
    ClearReturned => ClearedZero /\ display.dirty = {}

\* C26: after clear(clear_status_line), whatever the buffers and the dirty set
\* were, the device and the buffers hold zeros from the first body address (from
\* address 0 with clear_status_line) to the last address, no cleared address is
\* dirty (all of the dirty set is empty after clear(True); a dirty address of the
\* status line stays dirty after clear(False)), and address_counter is the first
\* body address, force-loaded.
C26_ClearPostcondition ==
    ClearReturned =>
       /\ ClearedZero
       /\ display.dirty \cap ClearedAddresses = {}
       /\ counter.call.name = ClearName(TRUE) => display.dirty = {}

\* clear() returned on a display whose status line held a byte not yet flushed,
\* with address_counter None: two loads of the address counter around the write
C26_Witness ==
    /\ ClearReturned
    /\ counter.call.name = ClearName(FALSE)
    /\ display.regen_buffer[0] = 1
    /\ display.dirty = {0}
    /\ counter.call.address_counter = NoCounter
    /\ counter.call.commands = 5

(***************************************************************************)
(* _update_sessions: the futures of the STARTING and TERMINATING entries   *)
(* (controller.py 163-185), for sessions dicts of up to MaxSessions        *)
(* entries in every order of states.                                       *)
(***************************************************************************)

MaxSessions == 3

\* what an entry of the sessions dict can be: STARTING with a future that is
\* running, done with a session or done with an exception, ACTIVE, or
\* TERMINATING with a future that is running or done
EntryKinds ==
    {[state |-> "STARTING", done |-> FALSE, ok |-> TRUE],
     [state |-> "STARTING", done |-> TRUE, ok |-> TRUE],
     [state |-> "STARTING", done |-> TRUE, ok |-> FALSE],
     [state |-> "ACTIVE", done |-> FALSE, ok |-> TRUE],
     [state |-> "TERMINATING", done |-> FALSE, ok |-> TRUE],
     [state |-> "TERMINATING", done |-> TRUE, ok |-> TRUE]}

\* the sessions dicts of n entries, the i-th inserted for address i
SessionDicts(n) ==
    {[i \in 1..n |-> SessionEntry(i, kinds[i].state, kinds[i].done, kinds[i].ok, "")] :
        kinds \in [1..n -> EntryKinds]}

\* the two loops over sessions.get(STARTING, []) and sessions.get(TERMINATING, [])
\* of _update_sessions: future.result() of a start that raised leaves the method
HandleFutures(s) ==
    LET done_starting == {i \in Group(s, "STARTING") : s[i].done}
        failed == {i \in done_starting : ~s[i].ok}
        started == IF failed = {} THEN done_starting
                   ELSE {i \in done_starting : i < MinOf(failed)}
        terminated == {s[i].addr : i \in {j \in Group(s, "TERMINATING") : s[j].done}}
        activated == [i \in DOMAIN s |-> IF i \in started
                                         THEN SessionEntry(s[i].addr, "ACTIVE", FALSE, TRUE, "")
                                         ELSE s[i]]
    IN [sessions |-> IF failed # {} THEN activated ELSE DelSessions(activated, terminated),
        registered |-> {s[i].addr : i \in started},
        raised |-> failed # {}]

DoHandleFutures ==
    /\ ~reaping.called
    /\ LET result == HandleFutures(reaping.sessions)
       IN reaping' = [reaping EXCEPT !.handled = result.sessions,
                                     !.registered = result.registered,
                                     !.raised = result.raised,
                                     !.called = TRUE]
    /\ UNCHANGED exceptReaping

InitReaping ==
    /\ ControllerInit
    /\ ~protocol_3299
    /\ IdleBut("reaping")
    /\ \E n \in 0..MaxSessions : \E entries \in SessionDicts(n) :
          reaping = InitialReaping(entries)

NextReaping == DoHandleFutures

SpecReaping == InitReaping /\ [][NextReaping]_vars

\* C28: after a call of _update_sessions that returned, every entry that was
\* STARTING with a completed future is ACTIVE and registered with the selector,
\* and every entry that was TERMINATING with a completed future is removed,
\* whatever the number of entries and the order of their states.
C28_EveryCompletedFutureHandled ==
    reaping.called /\ ~reaping.raised =>
       \A i \in DOMAIN reaping.sessions :
          LET entry == reaping.sessions[i]
          IN /\ entry.state = "STARTING" /\ entry.done =>
                   /\ SessionStateOf(reaping.handled, entry.addr) = "ACTIVE"
                   /\ entry.addr \in reaping.registered
             /\ entry.state = "TERMINATING" /\ entry.done =>
                   entry.addr \notin SessionKeys(reaping.handled)

(***************************************************************************)
(* _poll_attached_devices step by step, and the POLL of a detached address *)
(* that follows it (controller.py 278-338).                                *)
(***************************************************************************)

MaxDevices == 2

\* the addresses a device can be attached at
PollAddresses == 1..MaxDevices

\* a faulty variant: the loop goes on whatever the responses
MorePollingRegardless(responses, round) == round + 1 < poll_depth

\* for _ in range(self.poll_depth), left by "if not handleable_poll_responses: break"
MorePolling(responses, round) == Handleable(responses) # {} /\ round + 1 < poll_depth

\* the lowest address of a set: the devices dict is iterated in this order
FirstOf(S) == CHOOSE a \in S : \A b \in S : a <= b

\* if not devices: break.  Otherwise the POLLs of a round, one execute for all
\* devices: it returns a response for each, or raises for an error other than a
\* receive timeout
DoPollRound ==
    /\ polling.pc = "poll"
    /\ IF polling.devices = {}
       THEN polling' = [polling EXCEPT !.pc = "done"]
       ELSE \E responses \in [polling.devices -> AttachedResponses] :
              LET sent == [polling EXCEPT
                                !.polls = [a \in DOMAIN @ |->
                                             IF a \in polling.devices THEN @[a] + 1 ELSE @[a]],
                                !.previous = polling.responses,
                                !.acked = {},
                                !.handled = {}]
              IN IF \E a \in polling.devices : responses[a] \in {"ReceiveError", "ProtocolError"}
                 THEN polling' = [sent EXCEPT !.responses = << >>, !.pc = "raised"]
                 ELSE polling' = [sent EXCEPT !.responses = responses,
                                                !.pc = IF Handleable(responses) # {}
                                                       THEN "ack" ELSE "lost"]
    /\ UNCHANGED exceptPolling

\* self.interface.execute(poll_ack_commands): a POLL_ACK to every device with a
\* handleable response; execute returns or raises
DoPollAck ==
    /\ polling.pc = "ack"
    /\ \E outcome \in ExecuteOutcomes :
          polling' = [polling EXCEPT !.acked = Handleable(polling.responses),
                                     !.pc = IF outcome = "ok" THEN "handle" ELSE "raised"]
    /\ UNCHANGED exceptPolling

\* _handle_poll_response for the next handleable response; the handling of a
\* keystroke can raise (a display write)
DoHandlePollResponse ==
    /\ polling.pc = "handle"
    /\ LET device == FirstOf(Handleable(polling.responses) \ polling.handled)
           handled == polling.handled \cup {device}
       IN \E outcome \in ExecuteOutcomes :
             /\ outcome = "raised" => polling.responses[device] = "Keystroke"
             /\ polling' = [polling EXCEPT
                               !.handled = handled,
                               !.pc = IF outcome = "raised" THEN "raised"
                                      ELSE IF handled = Handleable(polling.responses)
                                      THEN "lost" ELSE "handle"]
    /\ UNCHANGED exceptPolling

\* _handle_device_lost for every ReceiveTimeout, then the end of the round
DoHandleLost ==
    /\ polling.pc = "lost"
    /\ polling' = [polling EXCEPT
                      !.devices = @ \ LostDevices(polling.responses),
                      !.round = @ + 1,
                      !.pc = IF MorePolling(polling.responses, polling.round)
                             THEN "poll" ELSE "done"]
    /\ UNCHANGED exceptPolling

\* _poll_next_detatched_device for a detached address: the POLL, the POLL_ACK
\* if poll_response, then _handle_device_found, which attaches the device
\* unless its creation fails
DoPollDetatched ==
    /\ polling.pc = "done"
    /\ \E addr \in PollAddresses \ polling.devices, response \in DetatchedResponses,
          create \in {"device", "error"} :
          polling' = [polling EXCEPT
                         !.pc = "end",
                         !.detatched = [addr |-> addr, response |-> response,
                                        acked |-> ~PollRaised(response) /\ response # "TTAR"],
                         !.devices = IF ~PollRaised(response) /\ create = "device"
                                     THEN @ \cup {addr} ELSE @]
    /\ UNCHANGED exceptPolling

InitPolling ==
    /\ ControllerInit
    /\ ~protocol_3299
    /\ IdleBut("polling")
    /\ \E attached \in SUBSET PollAddresses : polling = InitialPolling(attached)

NextPolling ==
    \/ DoPollRound
    \/ DoPollAck
    \/ DoHandlePollResponse
    \/ DoHandleLost
    \/ DoPollDetatched

SpecPolling == InitPolling /\ [][NextPolling]_vars

\* the devices whose response of the round is neither empty (TT/AR) nor a
\* receive timeout
Answered ==
    {a \in DOMAIN polling.responses : polling.responses[a] \notin {"TTAR", "ReceiveTimeout"}}

\* C29: a POLL_ACK is sent to an attached device in a round exactly if its POLL
\* response of the round is neither empty nor a receive timeout, and before any
\* response of the round is handled; a detached address gets a POLL_ACK exactly
\* if its POLL returned a response that is not empty.
C29_PollAck ==
    /\ polling.acked \in {{}, Answered}
    /\ polling.handled \subseteq polling.acked
    /\ polling.pc \in {"handle", "lost", "done", "end"} /\ polling.responses # << >> =>
          polling.acked = Answered
    /\ polling.pc = "ack" => polling.handled = {}
    /\ polling.detatched.acked <=> polling.detatched.response = "POR"

\* the keystroke of device 1 was acknowledged and handled; device 2, which timed
\* out, was not
C29_Witness ==
    /\ polling.pc = "lost"
    /\ polling.responses = (1 :> "Keystroke" @@ 2 :> "ReceiveTimeout")
    /\ polling.acked = {1}
    /\ polling.handled = {1}

\* C30: in a call of _poll_attached_devices no device is polled more than
\* poll_depth times and only attached devices are polled, every attached device
\* has been polled once the call returned, and a round after the first follows a
\* round with a response that is neither empty nor a receive timeout.
C30_PollDepth ==
    /\ \A a \in polling.attached : polling.polls[a] <= poll_depth
    /\ polling.round <= poll_depth
    /\ polling.attached = {} => polling.responses = << >> /\ polling.round = 0
    /\ polling.pc \in {"done", "end"} => \A a \in polling.attached : polling.polls[a] >= 1
    /\ \A a \in polling.attached : polling.polls[a] > 1 =>
          \E b \in DOMAIN polling.previous : polling.previous[b] \in {"Keystroke", "POR"}

\* device 1 was polled poll_depth times, device 2, lost in the first round, once
C30_Witness ==
    /\ polling.pc = "done"
    /\ polling.attached = {1, 2}
    /\ polling.polls[1] = poll_depth
    /\ polling.polls[2] = 1

DetachedCandidates == SeqToSet(GetDetatchedDeviceAddresses(devices, protocol_3299))

\* no candidate is attached, and the address a detached POLL would go to, the head
\* of the queue, is not attached
C38_NoAttachedCandidate ==
    /\ DetachedCandidates \cap devices = {}
    /\ detatched_device_poll_queue # <<>> => Head(detatched_device_poll_queue) \notin devices

\* a direct-attached device or an interface without the 3299 feature leaves no
\* 3299 port among the candidates
C38_NoPortCandidate ==
    NoneAddr \in devices \/ ~protocol_3299 => DetachedCandidates \cap PortAddresses = {}

\* C38: _get_detatched_device_addresses never returns an attached address; with a
\* device attached at any 3299 port, the port of address 0 included, the direct
\* address None is no candidate; with a direct-attached device or without the 3299
\* feature no port is a candidate; and no detached POLL goes to an attached address.
C38_DetachedCandidates ==
    /\ C38_NoAttachedCandidate
    /\ C38_NoPortCandidate
    /\ devices \cap PortAddresses # {} => NoneAddr \notin DetachedCandidates

\* ------------------------------------------------------------ sessions at shutdown
\* C39: when run() has returned, terminate() has been called exactly once for
\* every session whose start() a worker has executed, also for a session whose
\* entry was still STARTING when the loop ended.
C39_NoSessionLeaked ==
    pc = "stopped" =>
        \A a \in Addresses : session_started[a] => terminate_calls[a] = 1

\* ------------------------------------------------------------ selector registration
\* the addresses whose sessions entry is ACTIVE
ActiveAddresses(s) == {a \in Addresses : SessionStateOf(s, a) = "ACTIVE"}

\* What a step does to the registration of a session: it is registered in the step
\* that makes it ACTIVE and in no other, and it is unregistered, having been
\* registered, in the step that ends its being ACTIVE; at shutdown
\* _terminate_session unregisters it one step before it deletes the entry.
RegistrationStep ==
    \A a \in Addresses :
        LET active == a \in ActiveAddresses(sessions)
            active_after == a \in ActiveAddresses(sessions')
            registered == a \in session_selector
            registered_after == a \in session_selector'
        IN  /\ (~registered /\ registered_after) <=> (~active /\ active_after)
            /\ (registered /\ ~registered_after) =>
                   active /\ (~active_after \/ pc' = "terminate_session")
            /\ (active /\ ~active_after) =>
                   ~registered_after /\ (registered \/ pc = "terminate_session")

\* C37: between the operations of the controller the sessions registered with the
\* selector are the sessions recorded as ACTIVE; a session is registered once,
\* when it becomes ACTIVE, and unregistered once, when it stops being ACTIVE, and
\* none is unregistered that is not registered.
C37_SelectorMatchesActive ==
    /\ [](pc # "terminate_session" => session_selector = ActiveAddresses(sessions))
    /\ [][RegistrationStep]_vars

\* one session is ACTIVE and registered while another, unregistered, terminates
C37_Witness ==
    \E a, b \in Addresses :
        /\ SessionStateOf(sessions, a) = "ACTIVE" /\ a \in session_selector
        /\ SessionStateOf(sessions, b) = "TERMINATING" /\ b \notin session_selector
        /\ terminate_tasks[b] = 1

\* ------------------------------------------------------------ session liveness
\* the steps of the thread that executes run(): it goes on as long as it can
LoopStep ==
    \/ LoopTop
    \/ UpdateSessionsFutures
    \/ SelectSessions
    \/ \E a \in Addresses : HandleHost(a)
    \/ RenderSessions
    \/ PollAttachedDevices
    \/ PollNextDetatchedDevice

\* The controller under fair execution: the run loop goes on, and the worker pool
\* executes every task submitted to it.  stop() and what the devices, the hosts and
\* the clock do are not subject to fairness.
SpecLive ==
    /\ Init
    /\ [][Next]_vars
    /\ WF_vars(LoopStep)
    /\ \A a \in Addresses : WF_vars(WorkerStartSession(a)) /\ WF_vars(WorkerTerminateSession(a))

\* the device at address a is attached and the loop is running
Served(a) == a \in devices /\ running /\ pc # "crashed"

\* the device at address a has an ACTIVE session registered with the selector
HasActiveSession(a) == SessionStateOf(sessions, a) = "ACTIVE" /\ a \in session_selector

\* C40: under fair execution of the run loop and the worker pool, a device that is
\* attached and stays attached while the controller runs has an ACTIVE session
\* registered with the selector again and again, whatever the poll delays of the
\* iterations are.
C40_SessionLiveness ==
    \A a \in Addresses : <>[]Served(a) => []<>HasActiveSession(a)

\* the same for the behaviours in which _update_sessions is called again and again
C40_LiveWhenUpdating ==
    \A a \in Addresses :
        []<>(pc = "update_sessions") /\ <>[]Served(a) => []<>HasActiveSession(a)

\* ------------------------------------------------------------ TN3270Session
\* The host connection of a TN3270 session, driven as the controller drives a
\* session: start() once, handle_host() and handle_key() while it is active,
\* terminate() once, after a disconnect or without one.
MaxHostSessions == 2
MaxHostCalls == 6

\* a call of the session begins
HostCall(h, name) ==
    [h EXCEPT !.calls = @ + 1,
              !.call = [name |-> name, result |-> "none", state |-> h.state,
                        closes |-> h.closes]]

\* _connect_host: self.telnet = Telnet(terminal_type); self.telnet.open(host, port)
ConnectHost(h, opened) ==
    [h EXCEPT !.telnet = IF opened THEN "open" ELSE "unopened",
              !.opens = IF opened THEN @ + 1 ELSE @]

\* start(): the connection is opened and the emulator is created; an exception of
\* telnet.open propagates
SessionStart(h, opened) ==
    LET c == ConnectHost(HostCall(h, "start"), opened)
    IN  IF opened
        THEN [c EXCEPT !.emulator = "Emulator", !.state = "active", !.call.result = "None"]
        ELSE [c EXCEPT !.state = "failed", !.call.result = "error"]

\* _disconnect_host: self.telnet.close(); self.telnet = None
DisconnectHost(h) == [h EXCEPT !.telnet = "None", !.closes = @ + 1]

\* a faulty variant: terminate() disconnects whether or not telnet is None
TerminateDisconnects(h) ==
    [DisconnectHost(HostCall(h, "terminate")) EXCEPT
        !.emulator = "None", !.state = "terminated", !.call.result = "None"]

\* terminate(): if self.telnet: self._disconnect_host(); self.emulator = None
SessionTerminate(h) ==
    LET c == HostCall(h, "terminate")
        d == IF c.telnet # "None" THEN DisconnectHost(c) ELSE c
    IN  [d EXCEPT !.emulator = "None", !.state = "terminated", !.call.result = "None"]

\* What self.emulator.update(timeout=0) does: returns True or False, or raises
\* EOFError, ConnectionResetError or something else.
UpdateOutcomes == {"True", "False", "EOFError", "ConnectionResetError", "error"}

\* handle_host()
SessionHandleHost(h, update) ==
    LET c == HostCall(h, "handle_host")
    IN  IF update = "False" THEN [c EXCEPT !.call.result = "False"]
        ELSE IF update \in {"EOFError", "ConnectionResetError"}
        THEN [DisconnectHost(c) EXCEPT !.state = "disconnected",
                                       !.call.result = "SessionDisconnectedError"]
        ELSE IF update = "error" THEN [c EXCEPT !.state = "failed", !.call.result = "error"]
        ELSE [c EXCEPT !.waiting_on_host = FALSE, !.call.result = "True"]

\* handle_key() for an AID key (self.waiting_on_host = True) or another key
SessionHandleKey(h, aid) ==
    LET c == HostCall(h, "handle_key")
    IN  [c EXCEPT !.waiting_on_host = IF aid THEN TRUE ELSE @, !.call.result = "None"]

\* the worker of the controller starts the session
DoSessionStart ==
    /\ host.state = "created"
    /\ \E opened \in BOOLEAN : host' = SessionStart(host, opened)
    /\ UNCHANGED exceptHost

\* the controller services the host of the active session
DoSessionHandleHost ==
    /\ host.state = "active"
    /\ host.calls < MaxHostCalls
    /\ \E update \in UpdateOutcomes : host' = SessionHandleHost(host, update)
    /\ UNCHANGED exceptHost

\* the controller forwards a key to the active session
DoSessionHandleKey ==
    /\ host.state = "active"
    /\ host.calls < MaxHostCalls
    /\ \E aid \in BOOLEAN : host' = SessionHandleKey(host, aid)
    /\ UNCHANGED exceptHost

\* the controller terminates the session: after SessionDisconnectedError, after
\* the device was lost, or at shutdown
DoSessionTerminate ==
    /\ host.state \in {"active", "disconnected"}
    /\ host' = SessionTerminate(host)
    /\ UNCHANGED exceptHost

\* the controller creates the next session of the device
DoCreateSession ==
    /\ host.state = "terminated"
    /\ host.number < MaxHostSessions
    /\ host' = InitialHost(host.number + 1)
    /\ UNCHANGED exceptHost

InitHost ==
    /\ ControllerInit
    /\ ~protocol_3299
    /\ IdleBut("host")
    /\ host = InitialHost(1)

NextHost ==
    \/ DoSessionStart
    \/ DoSessionHandleHost
    \/ DoSessionHandleKey
    \/ DoSessionTerminate
    \/ DoCreateSession

SpecHost == InitHost /\ [][NextHost]_vars

\* C35: the host connection of a session is closed exactly once: a handle_host
\* that sees EOF or a connection reset closes it and raises
\* SessionDisconnectedError, the terminate() that follows does not close it
\* again, and a terminate() without a disconnect before it closes it once.
C35_ClosedOnce ==
    /\ host.closes <= host.opens
    /\ host.state = "disconnected" =>
         /\ host.call.result = "SessionDisconnectedError"
         /\ host.closes = 1 /\ host.telnet = "None"
    /\ host.state = "terminated" =>
         /\ host.closes = 1 /\ host.telnet = "None"
         /\ host.call.name = "terminate"
         /\ host.call.state = "disconnected" => host.call.closes = 1
         /\ host.call.state = "active" => host.call.closes = 0

\* terminate() has returned for a session that had disconnected from its host
C35_Witness ==
    /\ host.state = "terminated"
    /\ host.call.state = "disconnected"
    /\ host.closes = 1

\* ------------------------------------------------ _handle_keystroke_poll_response
\* The whole of _handle_keystroke_poll_response on a terminal whose address has
\* the sessions entry d.entry.
MaxKeystrokes == 3

\* what the sessions dict holds for the address of the terminal
EntryStates == {"absent", "STARTING", "ACTIVE", "TERMINATING"}

\* what get_key returns as key: None, a key handled locally, or another key
DecodedKeys == {NoKey} \cup Keys

\* Where a call ends: it returns, or the status line write, the
\* LOAD_CONTROL_REGISTER, handle_key or render raises.
DispatchOutcomes == {"ok", "status_line", "load", "handle_key", "render"}

\* a faulty variant: device_address in self.sessions alone decides
ForwardsIfPresent(entry) == entry # "absent"

\* device_address in self.sessions and session_state == SessionState.ACTIVE
Forwards(entry) == entry = "ACTIVE"

\* _handle_keystroke_poll_response(terminal, poll_response) with the decoded key
\* and modifiers_changed that terminal.keyboard.get_key returned
DispatchKeystroke(d, key, modifiers_changed, outcome) ==
    LET begun == [d EXCEPT !.calls = @ + 1,
                           !.terminal.call.name = "none",
                           !.call = [key |-> key, modifiers_changed |-> modifiers_changed,
                                     entry |-> d.entry, forwarded |-> FALSE,
                                     rendered |-> FALSE, raised |-> "none"]]
        written == IF modifiers_changed
                   THEN [begun EXCEPT !.status_line = IF outcome = "status_line" THEN @ ELSE @ + 1,
                                      !.call.raised = IF outcome = "status_line"
                                                      THEN "status_line" ELSE "none"]
                   ELSE begun
    IN  IF written.call.raised # "none" \/ key = NoKey THEN written
        ELSE IF key \in {"CURSOR_BLINK", "ALT_CURSOR", "CLICKER"}
        THEN LET t == HandleKeystrokePollResponse(written.terminal, key,
                                                  IF outcome = "load" THEN "raised" ELSE "ok")
             IN  [written EXCEPT !.terminal = t,
                                 !.call.raised = IF t.call.raised THEN "load" ELSE "none"]
        ELSE IF ~Forwards(written.entry) THEN written
        ELSE IF outcome = "handle_key"
        THEN [written EXCEPT !.call.raised = "handle_key"]
        ELSE IF outcome = "render"
        THEN [written EXCEPT !.keys = @ + 1, !.call.forwarded = TRUE,
                             !.call.raised = "render"]
        ELSE [written EXCEPT !.keys = @ + 1, !.renders = @ + 1,
                             !.call.forwarded = TRUE, !.call.rendered = TRUE]

\* a keystroke of the terminal is handled
DoDispatchKeystroke ==
    /\ dispatch.calls < MaxKeystrokes
    /\ \E key \in DecodedKeys, modifiers_changed \in BOOLEAN, outcome \in DispatchOutcomes :
          dispatch' = DispatchKeystroke(dispatch, key, modifiers_changed, outcome)
    /\ UNCHANGED exceptDispatch

\* between two keystrokes the controller starts, activates, terminates or removes
\* the session of the address
DoChangeEntry ==
    /\ \E entry \in EntryStates \ {dispatch.entry} :
          /\ entry = "STARTING" => dispatch.entry = "absent"
          /\ entry = "ACTIVE" => dispatch.entry = "STARTING"
          /\ entry = "TERMINATING" => dispatch.entry = "ACTIVE"
          /\ entry = "absent" => dispatch.entry \in {"ACTIVE", "TERMINATING"}
          /\ dispatch' = [dispatch EXCEPT !.entry = entry]
    /\ UNCHANGED exceptDispatch

InitDispatch ==
    /\ ControllerInit
    /\ ~protocol_3299
    /\ IdleBut("dispatch")
    /\ dispatch = InitialDispatch("absent")

NextDispatch == DoDispatchKeystroke \/ DoChangeEntry

SpecDispatch == InitDispatch /\ [][NextDispatch]_vars

\* C34: CURSOR_BLINK, ALT_CURSOR and CLICKER are handled locally and never
\* forwarded to a session; any other key that is not None is forwarded by
\* handle_key followed by render if and only if the sessions entry of the address
\* is ACTIVE; a key that arrives while the entry is STARTING, TERMINATING or
\* absent, and a None key, reach no session.  (Calls in which a device write or
\* the session raises are left out.)
C34_KeyDispatch ==
    LET c == dispatch.call
    IN  /\ c.key \in {"CURSOR_BLINK", "ALT_CURSOR", "CLICKER"} =>
             /\ ~c.forwarded /\ ~c.rendered
             /\ c.raised = "none" => dispatch.terminal.call.name = "keystroke"
        /\ c.key = "OTHER" /\ c.raised = "none" =>
             /\ c.forwarded <=> c.entry = "ACTIVE"
             /\ c.rendered <=> c.forwarded
        /\ c.key = NoKey \/ c.entry # "ACTIVE" => ~c.forwarded /\ ~c.rendered
        /\ dispatch.renders <= dispatch.keys

\* a key was forwarded to the ACTIVE session and rendered, after a key that
\* arrived earlier had reached no session
C34_Witness ==
    /\ dispatch.call.key = "OTHER"
    /\ dispatch.call.entry = "ACTIVE"
    /\ dispatch.call.forwarded /\ dispatch.call.rendered
    /\ dispatch.calls = 2
    /\ dispatch.keys = 1

\* ------------------------------------------------ the while loop of _update_sessions
\* The sessions of one call, the longest duration in ticks, and the time one round
\* of the loop takes.
ServicedSessions == {1, 2}
MaxDuration == 3
RoundTimes == {1, 2}

\* a faulty variant: a disconnected session stays in updated_sessions
KeepUpdated(updated, s) == updated

\* updated_sessions.discard(session)
Discard(updated, s) == updated \ {s}

\* what session.handle_host() does
HandleHostOutcomes == {"True", "False", "SessionDisconnectedError", "error"}

\* while duration > 0: sessions = set(self._select_sessions(duration)); the started
\* sessions are added in the first round; if not sessions: break
DoSelectRound ==
    /\ servicing.pc = "select"
    /\ IF servicing.duration <= 0
       THEN servicing' = [servicing EXCEPT !.pc = "render"]
       ELSE \E ready_sessions \in SUBSET servicing.registered :
              LET all == ready_sessions \cup (IF servicing.is_first_iteration
                                              THEN servicing.started_sessions ELSE {})
              IN  servicing' = [servicing EXCEPT
                      !.selected = @ \/ ready_sessions # {},
                      !.round = all,
                      !.pc = IF all = {} THEN "render" ELSE "handle"]
    /\ UNCHANGED exceptServicing

\* One pass of the for loop: session.handle_host(), updated_sessions.add on True,
\* on SessionDisconnectedError updated_sessions.discard and
\* _handle_session_disconnected, which unregisters the session and submits its
\* terminate; after the last session of the round the duration is updated.
DoHandleHost ==
    /\ servicing.pc = "handle"
    /\ \E s \in servicing.round, outcome \in HandleHostOutcomes, elapsed \in RoundTimes :
         LET called == [servicing EXCEPT
                           !.handled[s] = @ + 1,
                           !.round = @ \ {s},
                           !.serviced_after_render =
                               @ \/ \E r \in servicing.registered : servicing.renders[r] > 0]
             result ==
                 IF outcome = "error" THEN [called EXCEPT !.pc = "raised"]
                 ELSE IF outcome = "True"
                 THEN [called EXCEPT !.updated_sessions = @ \cup {s}, !.updated[s] = TRUE]
                 ELSE IF outcome = "False" THEN called
                 ELSE [called EXCEPT !.updated_sessions = Discard(@, s),
                                     !.disconnected[s] = TRUE,
                                     !.terminations[s] = @ + 1,
                                     !.registered = @ \ {s}]
         IN  servicing' = IF result.pc = "handle" /\ result.round = {}
                          THEN [result EXCEPT !.duration = Max(@ - elapsed, 0),
                                              !.is_first_iteration = FALSE,
                                              !.pc = "select"]
                          ELSE result
    /\ UNCHANGED exceptServicing

\* for session in updated_sessions: session.render(), one session at a time; a
\* display write of render() may raise
DoRenderSession ==
    /\ servicing.pc = "render"
    /\ \E s \in servicing.updated_sessions, ok \in BOOLEAN :
         /\ servicing.renders[s] = 0
         /\ servicing' = [servicing EXCEPT !.renders[s] = @ + 1,
                                           !.pc = IF ok THEN @ ELSE "raised"]
    /\ UNCHANGED exceptServicing

\* the for loop is over: _update_sessions returns
DoReturn ==
    /\ servicing.pc = "render"
    /\ \A s \in servicing.updated_sessions : servicing.renders[s] > 0
    /\ servicing' = [servicing EXCEPT !.pc = "returned"]
    /\ UNCHANGED exceptServicing

InitServicing ==
    /\ ControllerInit
    /\ ~protocol_3299
    /\ IdleBut("servicing")
    /\ \E registered \in SUBSET ServicedSessions, duration_left \in 0..MaxDuration :
         \E started \in SUBSET registered :
            servicing = InitialServicing(registered, started, duration_left)

NextServicing == DoSelectRound \/ DoHandleHost \/ DoRenderSession \/ DoReturn

SpecServicing == InitServicing /\ [][NextServicing]_vars

\* the sessions of the call
Serviced == DOMAIN servicing.handled

\* what the call has done to each session when it returns: rendered once, after
\* all host servicing, exactly the sessions that returned True and did not
\* disconnect; terminated once, and not rendered, the sessions that disconnected
RenderedAndTerminated ==
    /\ ~servicing.serviced_after_render
    /\ servicing.pc = "returned" =>
         \A s \in Serviced :
            /\ servicing.renders[s] =
                  (IF servicing.updated[s] /\ ~servicing.disconnected[s] THEN 1 ELSE 0)
            /\ servicing.terminations[s] = (IF servicing.disconnected[s] THEN 1 ELSE 0)
            /\ servicing.disconnected[s] => s \notin servicing.registered

\* no handle_host and no render was called
NothingCalled ==
    \A s \in Serviced : servicing.handled[s] = 0 /\ servicing.renders[s] = 0

\* C33 as stated: in one call of _update_sessions a session is rendered exactly
\* once, after all host servicing, iff its handle_host returned True at least
\* once and it did not disconnect; a session that raised
\* SessionDisconnectedError is terminated exactly once and not rendered; when no
\* session is ready within the duration, no handle_host and no render is called.
C33_RenderAfterServicing ==
    /\ RenderedAndTerminated
    /\ ~servicing.selected => NothingCalled

\* C33, amended: the same, where no handle_host and no render is called when no
\* session is ready within the duration and the call has made no session ACTIVE,
\* or when no duration is left after the futures were handled.
C33_RenderAfterServicingOrStart ==
    /\ RenderedAndTerminated
    /\ ~servicing.selected /\ servicing.started = {} => NothingCalled
    /\ servicing.duration = 0 /\ servicing.is_first_iteration => NothingCalled
    /\ \A s \in Serviced :
          servicing.handled[s] > 0 /\ ~servicing.selected => s \in servicing.started

\* a call has returned in which one session was rendered after it returned True
\* and the other disconnected after it had returned True, and was not rendered
C33_Witness ==
    /\ servicing.pc = "returned"
    /\ \E s, t \in Serviced :
          /\ servicing.renders[s] = 1 /\ servicing.updated[s]
          /\ servicing.disconnected[t] /\ servicing.updated[t] /\ servicing.renders[t] = 0

\* ------------------------------------------------ the session and the device of an address
\* Device objects that create_device makes for the address and calls of
\* _update_sessions that are followed.
MaxDeviceObjects == 3
MaxUpdates == 4

\* _handle_device_lost: if session_state == SessionState.ACTIVE
LostSessionTerminated(b) == b.entry = "ACTIVE"

\* _handle_device_found: device = self.create_device(...); device.setup();
\* self.devices[device_address] = device
HandleDeviceFound(b) ==
    [b EXCEPT !.created = @ + 1, !.device = b.created + 1, !.last = "found"]

\* _handle_device_lost: the session of an ACTIVE entry is terminated
\* (_terminate_session: the entry becomes TERMINATING with a new future), then
\* del self.devices[device_address]
HandleDeviceLost(b) ==
    LET t == IF LostSessionTerminated(b)
             THEN [b EXCEPT !.entry = "TERMINATING", !.done = FALSE]
             ELSE b
    IN  [t EXCEPT !.device = 0, !.last = "lost"]

\* _update_sessions up to the while loop, for the one address: a session is
\* started for self.devices[device_address] if the address has a device and no
\* entry; otherwise a STARTING entry whose future is done becomes ACTIVE with the
\* session the future holds, and a TERMINATING entry whose future is done is
\* deleted
UpdateSessionsOf(b) ==
    LET u == [b EXCEPT !.updates = @ + 1, !.last = "update"]
    IN  IF u.device # 0 /\ u.entry = "absent"
        THEN [u EXCEPT !.entry = "STARTING", !.done = FALSE, !.terminal = u.device]
        ELSE IF u.entry = "STARTING" /\ u.done
        THEN [u EXCEPT !.entry = "ACTIVE", !.done = FALSE]
        ELSE IF u.entry = "TERMINATING" /\ u.done
        THEN [u EXCEPT !.entry = "absent", !.done = FALSE, !.terminal = 0]
        ELSE u

\* a detached POLL finds a device at the address
DoDeviceFound ==
    /\ binding.device = 0
    /\ binding.created < MaxDeviceObjects
    /\ binding' = HandleDeviceFound(binding)
    /\ UNCHANGED exceptBinding

\* the POLL of the attached device times out
DoDeviceLost ==
    /\ binding.device # 0
    /\ binding' = HandleDeviceLost(binding)
    /\ UNCHANGED exceptBinding

\* the run loop calls _update_sessions
DoUpdateSessions ==
    /\ binding.updates < MaxUpdates
    /\ binding' = UpdateSessionsOf(binding)
    /\ UNCHANGED exceptBinding

\* a worker finishes start_session or terminate_session
DoWorkerDone ==
    /\ binding.entry \in {"STARTING", "TERMINATING"}
    /\ ~binding.done
    /\ binding' = [binding EXCEPT !.done = TRUE, !.last = "worker"]
    /\ UNCHANGED exceptBinding

\* handle_host of the ACTIVE session raises SessionDisconnectedError:
\* _terminate_session
DoDisconnected ==
    /\ binding.entry = "ACTIVE"
    /\ binding' = [binding EXCEPT !.entry = "TERMINATING", !.done = FALSE,
                                  !.last = "disconnected"]
    /\ UNCHANGED exceptBinding

InitBinding ==
    /\ ControllerInit
    /\ ~protocol_3299
    /\ IdleBut("binding")
    /\ binding = InitialBinding

NextBinding ==
    \/ DoDeviceFound
    \/ DoDeviceLost
    \/ DoUpdateSessions
    \/ DoWorkerDone
    \/ DoDisconnected

SpecBinding == InitBinding /\ [][NextBinding]_vars

\* C36: whenever the address has a device and an ACTIVE session, the terminal of
\* that session is the device object that devices holds for the address, also
\* after the device was lost and a device was attached again while a start or a
\* terminate of a session of the address was in flight.
C36_SessionBoundToDevice ==
    binding.entry = "ACTIVE" /\ binding.device # 0 => binding.terminal = binding.device

\* ------------------------------------------------ _poll_next_detatched_device in time
\* Calls of _poll_next_detatched_device at the times the run loop makes them.
\* Times are ticks of 1/30 s; between two calls the clock advances by one of
\* ClockSteps, up to MaxClock.
MaxClock == 45
ClockSteps == {7, detatched_poll_period}

\* a faulty variant: the queue is recomputed in every call
AlwaysEmpty(queue) == TRUE

\* if not self.detatched_device_poll_queue
QueueEmpty(queue) == queue = <<>>

\* last_detatched_poll_time is not None and
\* (perf_counter() - last_detatched_poll_time) < detatched_poll_period
RateLimited(last, now) == last # NoTime /\ (now - last) < detatched_poll_period

\* What the POLL and _handle_device_found do: the POLL raises one of the caught
\* errors, a device is attached, the device is unsupported, or POLL_ACK,
\* create_device or setup raises.
DetachedOutcomes == {"caught", "device", "UnsupportedDeviceError", "error"}

\* _poll_next_detatched_device called at time now
PollNextDetatched(d, now, outcome) ==
    LET begun == [d EXCEPT !.now = now,
                           !.calls = @ + 1,
                           !.call = [now |-> now, last |-> d.last_detatched_poll_time,
                                     queue |-> d.queue, recomputed |-> FALSE,
                                     polls |-> <<>>, raised |-> FALSE]]
    IN  IF RateLimited(d.last_detatched_poll_time, now) THEN begun
        ELSE LET timed == [begun EXCEPT !.last_detatched_poll_time = now]
                 filled == IF QueueEmpty(timed.queue)
                           THEN [timed EXCEPT
                                    !.queue = GetDetatchedDeviceAddresses(d.devices, d.has_3299),
                                    !.cycle = <<>>,
                                    !.call.recomputed = TRUE]
                           ELSE timed
             IN  IF filled.queue = <<>> THEN filled
                 ELSE LET device_address == Head(filled.queue)
                          issued == [filled EXCEPT !.queue = Tail(@),
                                                   !.cycle = Append(@, device_address),
                                                   !.call.polls = <<device_address>>]
                      IN  IF outcome = "device"
                          THEN [issued EXCEPT !.devices = @ \cup {device_address}]
                          ELSE IF outcome = "error"
                          THEN [issued EXCEPT !.call.raised = TRUE]
                          ELSE issued

\* the run loop calls _poll_next_detatched_device
DoPollNextDetatched ==
    /\ ~detached.call.raised
    /\ \E elapsed \in ClockSteps, outcome \in DetachedOutcomes :
         /\ detached.now + elapsed <= MaxClock
         /\ detached' = PollNextDetatched(detached, detached.now + elapsed, outcome)
    /\ UNCHANGED exceptDetached

\* the POLL of an attached device times out: del self.devices[device_address]
DoDetach ==
    /\ ~detached.call.raised
    /\ \E a \in detached.devices :
         detached' = [detached EXCEPT !.devices = @ \ {a}]
    /\ UNCHANGED exceptDetached

InitDetached ==
    /\ ControllerInit
    /\ ~protocol_3299
    /\ IdleBut("detached")
    /\ \E has_3299 \in BOOLEAN : detached = InitialDetached(has_3299)

NextDetached == DoPollNextDetatched \/ DoDetach

SpecDetached == InitDetached /\ [][NextDetached]_vars

\* the last call was made less than detatched_poll_period after the time in
\* last_detatched_poll_time
LimitedCall ==
    /\ detached.call.last # NoTime
    /\ detached.call.now - detached.call.last < detatched_poll_period

\* a limited call issues no POLL and leaves last_detatched_poll_time and the queue
\* as they were
LimitedCallDoesNothing ==
    LimitedCall =>
        /\ detached.call.polls = <<>>
        /\ detached.last_detatched_poll_time = detached.call.last
        /\ detached.queue = detached.call.queue
        /\ ~detached.call.recomputed

\* the queue is recomputed only when it is empty, and no address is polled twice
\* between two recomputations
RoundRobin ==
    /\ detached.call.recomputed => detached.call.queue = <<>>
    /\ \A i, j \in DOMAIN detached.cycle : detached.cycle[i] = detached.cycle[j] => i = j
    /\ \A i \in DOMAIN detached.cycle : detached.cycle[i] \notin SeqToSet(detached.queue)

\* the head of the queue as it was or, if it was empty, as it was recomputed, has
\* been removed and polled, and nothing else
HeadPolled ==
    LET before == IF detached.call.recomputed
                  THEN detached.call.polls \o detached.queue
                  ELSE detached.call.queue
    IN  /\ Len(detached.call.polls) = 1
        /\ detached.call.polls[1] = Head(before)
        /\ detached.queue = Tail(before)
        /\ detached.last_detatched_poll_time = detached.call.now

\* C31 as stated: a call of _poll_next_detatched_device made less than
\* detatched_poll_period after the previous detached poll issues no POLL and
\* leaves last_detatched_poll_time and the queue unchanged; every other call
\* removes and polls exactly one address, the head of the queue, and the queue is
\* recomputed only when it is empty, so that every candidate of a cycle is polled
\* once before any is polled again.
C31_DetachedPolling ==
    detached.calls > 0 =>
        /\ LimitedCallDoesNothing
        /\ RoundRobin
        /\ ~LimitedCall => HeadPolled

\* C31, amended: the same, except that a call that is not limited and finds the
\* queue empty and no unattached candidate address issues no POLL; it still sets
\* last_detatched_poll_time.
C31_DetachedPollingOfCandidates ==
    detached.calls > 0 =>
        /\ LimitedCallDoesNothing
        /\ RoundRobin
        /\ ~LimitedCall /\ (detached.call.polls # <<>> \/ detached.queue # <<>>) => HeadPolled
        /\ ~LimitedCall /\ detached.call.polls = <<>> =>
             /\ detached.call.recomputed
             /\ detached.queue = <<>>
             /\ detached.last_detatched_poll_time = detached.call.now
        /\ detached.call.recomputed =>
             \A a \in SeqToSet(detached.call.polls \o detached.queue) :
                a \notin detached.devices \/ detached.call.polls = <<a>>

\* the second address of a cycle has been polled, a period after the first
C31_Witness ==
    /\ Len(detached.cycle) = 2
    /\ ~detached.call.recomputed
    /\ detached.call.polls = <<detached.cycle[2]>>
    /\ detached.call.now - detached.call.last >= detatched_poll_period

====
